---- MODULE Spec2Model ----
(***************************************************************************)
(* Model of the Strategy Signal Engine of falah-trading-bot-v2:            *)
(*   src/src/core/engine.py            TradingEngine (cycle orchestrator)  *)
(*   src/src/strategies/*.py           SuperTrendStrategy, MacdRsiStrategy *)
(*   src/src/indicators/supertrend.py  calculate_supertrend                *)
(*                                                                         *)
(* Prices, ATR and capital are integers (currency units).  Fractions of    *)
(* the configuration are kept as integer numerators: percentages for       *)
(* risk_per_trade, max_position_size and profit_target_pct, tenths for the *)
(* ATR multipliers, hundredths for the confidence.                         *)
(***************************************************************************)
EXTENDS Integers, Sequences, FiniteSets, TLC

VARIABLES
    pc,          \* position of execute_cycle: "idle", "loop", "entry", "exit", "signals", "done"
    cycle,       \* number of execute_cycle calls started so far
    idx,         \* index of the symbol of the for-loop (engine.py:119)
    results,     \* the results dictionary of the running cycle (engine.py:102)
    positions,   \* portfolio: open positions, in the order add_position recorded them
    capital,     \* portfolio.get_available_capital()
    position,    \* local `position` of the loop body (engine.py:122)
    data,        \* local `data` of _check_entry_signals / _check_exit_conditions
    all_signals, \* signals of _check_entry_signals not yet processed (engine.py:160)
    gate,        \* the answer of risk_manager.can_trade() in the running cycle
    seen,        \* the loop iterations of the running cycle: symbol and branch taken
    log,         \* calls made while the current symbol is processed, in call order
    call         \* the latest direct call of a strategy or indicator function:
                 \* its name, arguments and result (outside the engine cycle)

vars == <<pc, cycle, idx, results, positions, capital, position, data,
          all_signals, gate, seen, log, call>>

----------------------------------------------------------------------------
(* Bounds of the model *)

MaxCycles == 2

\* the number of open positions from which the risk manager refuses a new one
MaxOpenPositions == 2

\* available capital of the portfolio when the engine is constructed
Capital0 == 1000

(* The symbol list handed to execute_cycle *)
symbols == <<"AAA", "BBB">>

None == [none |-> TRUE]

----------------------------------------------------------------------------
(* Configuration: the defaults of the strategies *)

\* config.get('risk_per_trade', 0.01), in percent
risk_per_trade == 1
\* config.get('max_position_size', 0.20), in percent
max_position_size == 20
\* SuperTrendStrategy.stop_loss_atr_mult = 2.5, in tenths
st_stop_loss_atr_mult == 25
\* MacdRsiStrategy.stop_loss_atr_mult = 2.8, in tenths
macd_stop_loss_atr_mult == 28
\* SuperTrendStrategy.profit_target_pct = 0.10, in percent
st_profit_target_pct == 10
\* MacdRsiStrategy.profit_target_pct = 0.08, in percent
macd_profit_target_pct == 8

\* BaseStrategy.get_stop_loss: self.config.get('stop_loss_atr_mult', 2.5), in tenths
base_stop_loss_atr_mult == 25
\* BaseStrategy.get_take_profit: self.config.get('profit_target_pct', 0.10), in percent
base_profit_target_pct == 10
\* MacdRsiStrategy.macd_threshold
macd_threshold == 0
\* MacdRsiStrategy.rsi_min / rsi_max
rsi_min == 40
rsi_max == 70
\* the fallback sizing of _execute_buy_signal: 0.01 of the capital, 2.5 ATR (tenths)
fallback_risk_pct == 1
fallback_atr_mult == 25
\* the confidence floor of _validate_signal, in hundredths
min_confidence == 50

----------------------------------------------------------------------------
(* Python helpers *)

\* int(n / d) for d > 0: truncation toward zero
IntDiv(n, d) == IF n >= 0 THEN n \div d ELSE -((-n) \div d)

Min(a, b) == IF a <= b THEN a ELSE b

\* str.lower() on the names the engine compares
Lower(s) ==
    CASE s = "SuperTrend" -> "supertrend"
      [] s = "MACD_RSI"   -> "macd_rsi"
      [] s = "MACD"       -> "macd"
      [] OTHER            -> s

\* reason.split()[0]: the first whitespace-separated word; a reason is kept as
\* its sequence of words
FirstWord(reason) == reason[1]

----------------------------------------------------------------------------
(* Strategies.  A strategy is identified by its name (BaseStrategy.name). *)

\* TradingEngine.strategies, in registration order
strategies == <<"SuperTrend", "MACD_RSI">>

\* `c in df.columns` / `c in latest`: the OHLCV columns come from the data
\* provider, the indicator columns exist only when _add_indicators succeeded
HasCol(f, c) ==
    IF c \in {"open", "low", "close", "volume"} THEN TRUE
    ELSE IF c = "high" THEN ~f.missing_high
    ELSE IF c = "symbol" THEN f.symbol # "UNKNOWN"
    ELSE f.enriched /\ c \in f.cols

\* BaseStrategy.get_stop_loss(entry_price, atr, 'long')
get_stop_loss(entry_price, atr) ==
    entry_price - IntDiv(atr * base_stop_loss_atr_mult, 10)

\* BaseStrategy.get_take_profit(entry_price, 'long')
get_take_profit(entry_price) ==
    IntDiv(entry_price * (100 + base_profit_target_pct), 100)

\* BaseStrategy.check_daily_trend on the daily frame
check_daily_trend(daily) ==
    IF daily.rows < 200 THEN FALSE ELSE daily.close > daily.ema200

\* latest.get('atr', latest['close'] * 0.02)
AtrOrDefault(f) == IF HasCol(f, "atr") THEN f.atr ELSE IntDiv(f.close * 2, 100)

----------------------------------------------------------------------------
(* SuperTrendStrategy *)

\* BaseStrategy.check_volume_confirmation: with fewer than 20 bars the check is
\* skipped; vol_ok says that the latest volume is at least the threshold
\* times the 20-bar average volume
check_volume_confirmation(f) == IF f.rows < 20 THEN TRUE ELSE f.vol_ok

\* a _validate_entry without the volume gate
st_validate_entry_no_volume(f, daily) ==
    /\ ~(HasCol(f, "supertrend") /\ f.close <= f.supertrend)
    /\ (daily # None /\ daily.rows > 0) => check_daily_trend(daily)

\* SuperTrendStrategy._validate_entry(latest, primary_data, daily_data)
st_validate_entry(f, daily) ==
    /\ ~(HasCol(f, "supertrend") /\ f.close <= f.supertrend)
    /\ check_volume_confirmation(f)
    /\ (daily # None /\ daily.rows > 0) => check_daily_trend(daily)

\* a confidence that gives the full RSI boost on the whole range [30, 70]
st_confidence_flat_rsi(f) ==
    LET c1 == IF HasCol(f, "supertrend") /\ f.supertrend > 0
                 /\ (f.close - f.supertrend) * 100 > f.supertrend
              THEN 60 ELSE 50
        c2 == IF check_volume_confirmation(f) THEN c1 + 15 ELSE c1
        c3 == IF HasCol(f, "rsi_14") /\ 30 <= f.rsi_14 /\ f.rsi_14 <= 70
              THEN c2 + 15 ELSE c2
        c4 == IF f.rows >= 5 /\ f.mono5 THEN c3 + 10 ELSE c3
    IN  Min(c4, 100)

\* SuperTrendStrategy._calculate_confidence, in hundredths
st_calculate_confidence(f) ==
    LET c0 == 50
        c1 == IF HasCol(f, "supertrend") /\ f.supertrend > 0
                 /\ (f.close - f.supertrend) * 100 > f.supertrend
              THEN c0 + 10 ELSE c0
        c2 == IF check_volume_confirmation(f) THEN c1 + 15 ELSE c1
        c3 == IF ~HasCol(f, "rsi_14") THEN c2
              ELSE IF 40 <= f.rsi_14 /\ f.rsi_14 <= 60 THEN c2 + 15
              ELSE IF 30 <= f.rsi_14 /\ f.rsi_14 <= 70 THEN c2 + 10
              ELSE c2
        c4 == IF f.rows >= 5 /\ f.mono5 THEN c3 + 10 ELSE c3
    IN  Min(c4, 100)

\* SuperTrendStrategy._create_buy_signal
st_create_buy_signal(f) ==
    [symbol      |-> f.symbol,
     signal_type |-> "BUY",
     price       |-> f.close,
     confidence  |-> st_calculate_confidence(f),
     reason      |-> <<"SuperTrend", "turned", "bullish">>,
     stop_loss   |-> get_stop_loss(f.close, AtrOrDefault(f)),
     take_profit |-> get_take_profit(f.close),
     position_size |-> None,
     origin      |-> "SuperTrend"]

\* SuperTrendStrategy.generate_signals(data): [raised, signals].  Without the
\* supertrend_direction column the strategy runs its own _calculate_supertrend,
\* which raises KeyError when a required column is absent.
st_generate_signals(d) ==
    LET f == d.m15 IN
    IF f = None \/ f.rows = 0 THEN [raised |-> FALSE, signals |-> <<>>]
    ELSE IF ~HasCol(f, "supertrend_direction") /\ ~HasCol(f, "high")
    THEN [raised |-> TRUE, signals |-> <<>>]
    ELSE IF f.rows > 1 /\ f.dir_prev <= 0 /\ f.dir_last > 0 /\ st_validate_entry(f, d.daily)
    THEN [raised |-> FALSE, signals |-> <<st_create_buy_signal(f)>>]
    ELSE [raised |-> FALSE, signals |-> <<>>]

\* SuperTrendStrategy.calculate_position_size
st_calculate_position_size(price, atr, available_capital) ==
    IF atr <= 0 \/ price <= 0 THEN 0
    ELSE Min(IntDiv(available_capital * risk_per_trade * 10, 100 * atr * st_stop_loss_atr_mult),
             IntDiv(available_capital * max_position_size, 100 * price))

\* SuperTrendStrategy._calculate_trailing_stop
st_calculate_trailing_stop(pos, f) ==
    IF HasCol(f, "supertrend") THEN f.supertrend
    ELSE IF HasCol(f, "atr") /\ f.atr > 0
    THEN pos.entry_price + IntDiv(f.atr * st_stop_loss_atr_mult * 5, 100)
    ELSE pos.stop_loss_price

\* what should_exit returns: the pair (exit, reason), or an exception
Ret(e, r)   == [exit |-> e, reason |-> r, raised |-> FALSE]
RaisedError == [exit |-> FALSE, reason |-> "", raised |-> TRUE]

\* current_data[c]: the subscript raises KeyError when the column is absent
KeyError(f, c) == ~HasCol(f, c)

\* the unrealized gain is at least trailing_stop_activation (0.05)
TrailingActive(pos, f) == (f.close - pos.entry_price) * 100 >= 5 * pos.entry_price

\* a should_exit of SuperTrendStrategy that reads the indicator columns
\* without asking whether they are there
st_should_exit_unguarded(pos, f) ==
    IF pos.entry_price <= 0 \/ f.close <= 0 THEN Ret(FALSE, "")
    ELSE IF KeyError(f, "supertrend_direction") THEN RaisedError
    ELSE IF f.dir_last <= 0 THEN Ret(TRUE, "SuperTrend turned bearish")
    ELSE IF KeyError(f, "supertrend") THEN RaisedError
    ELSE IF f.close < f.supertrend THEN Ret(TRUE, "Price below SuperTrend line")
    ELSE Ret(FALSE, "")

\* a should_exit of SuperTrendStrategy that looks at the stop-loss first
st_should_exit_stop_first(pos, f) ==
    IF pos.entry_price <= 0 \/ f.close <= 0 THEN Ret(FALSE, "")
    ELSE IF pos.stop_loss_price # 0 /\ f.close <= pos.stop_loss_price
    THEN Ret(TRUE, "Stop loss hit")
    ELSE IF HasCol(f, "supertrend_direction") /\ f.dir_last <= 0
    THEN Ret(TRUE, "SuperTrend turned bearish")
    ELSE IF HasCol(f, "supertrend") /\ f.close < f.supertrend
    THEN Ret(TRUE, "Price below SuperTrend line")
    ELSE IF pos.take_profit_price # 0 /\ f.close >= pos.take_profit_price
    THEN Ret(TRUE, "Profit target reached")
    ELSE IF TrailingActive(pos, f)
            /\ st_calculate_trailing_stop(pos, f) # 0
            /\ f.close <= st_calculate_trailing_stop(pos, f)
    THEN Ret(TRUE, "Trailing stop hit")
    ELSE Ret(FALSE, "")

\* SuperTrendStrategy.should_exit(position, current_data).  Every subscript
\* of an indicator column stands behind an `in` test of that column.
st_should_exit(pos, f) ==
    IF pos.entry_price <= 0 \/ f.close <= 0 THEN Ret(FALSE, "")
    ELSE IF HasCol(f, "supertrend_direction") /\ KeyError(f, "supertrend_direction")
    THEN RaisedError
    ELSE IF HasCol(f, "supertrend_direction") /\ f.dir_last <= 0
    THEN Ret(TRUE, "SuperTrend turned bearish")
    ELSE IF HasCol(f, "supertrend") /\ KeyError(f, "supertrend")
    THEN RaisedError
    ELSE IF HasCol(f, "supertrend") /\ f.close < f.supertrend
    THEN Ret(TRUE, "Price below SuperTrend line")
    ELSE IF pos.stop_loss_price # 0 /\ f.close <= pos.stop_loss_price
    THEN Ret(TRUE, "Stop loss hit")
    ELSE IF pos.take_profit_price # 0 /\ f.close >= pos.take_profit_price
    THEN Ret(TRUE, "Profit target reached")
    ELSE IF TrailingActive(pos, f)
            /\ st_calculate_trailing_stop(pos, f) # 0
            /\ f.close <= st_calculate_trailing_stop(pos, f)
    THEN Ret(TRUE, "Trailing stop hit")
    ELSE Ret(FALSE, "")

----------------------------------------------------------------------------
(* MacdRsiStrategy *)

\* latest.get(col, default) on the indicator columns
MacdLine(f)   == IF HasCol(f, "macd_line") THEN f.macd_line ELSE 0
MacdSignal(f) == IF HasCol(f, "macd_signal") THEN f.macd_signal ELSE 0
Rsi(f)        == IF HasCol(f, "rsi_14") THEN f.rsi_14 ELSE 50
BbLower(f)    == IF HasCol(f, "bb_lower") THEN f.bb_lower ELSE 0
BbUpper(f)    == IF HasCol(f, "bb_upper") THEN f.bb_upper ELSE 0

\* MacdRsiStrategy._check_entry_conditions
macd_check_entry_conditions(f, daily) ==
    /\ ~(MacdLine(f) <= macd_threshold \/ MacdSignal(f) <= macd_threshold)
    /\ rsi_min <= Rsi(f) /\ Rsi(f) <= rsi_max
    /\ ~(f.close < BbLower(f))
    /\ (daily # None) => check_daily_trend(daily)

\* MacdRsiStrategy._calculate_confidence, in hundredths
macd_calculate_confidence(f) ==
    LET c0 == 50
        c1 == IF MacdLine(f) > MacdSignal(f) THEN c0 + 15 ELSE c0
        c2 == IF 45 <= Rsi(f) /\ Rsi(f) <= 55 THEN c1 + 15
              ELSE IF 40 <= Rsi(f) /\ Rsi(f) <= 60 THEN c1 + 10
              ELSE c1
        w  == BbUpper(f) - BbLower(f)
        c3 == IF w > 0 /\ 2 * w <= 10 * (f.close - BbLower(f))
                 /\ 10 * (f.close - BbLower(f)) <= 5 * w
              THEN c2 + 10 ELSE c2
        c4 == IF check_volume_confirmation(f) THEN c3 + 10 ELSE c3
    IN  Min(c4, 100)

\* MacdRsiStrategy._create_buy_signal
macd_create_buy_signal(f) ==
    [symbol      |-> f.symbol,
     signal_type |-> "BUY",
     price       |-> f.close,
     confidence  |-> macd_calculate_confidence(f),
     reason      |-> <<"MACD", "positive,", "RSI", "in", "range,", "above", "BB", "lower">>,
     stop_loss   |-> get_stop_loss(f.close, AtrOrDefault(f)),
     take_profit |-> get_take_profit(f.close),
     position_size |-> None,
     origin      |-> "MACD_RSI"]

\* MacdRsiStrategy.generate_signals(data): [raised, signals].
\* `data.get('15min') or data.get('primary')` takes the truth value of the
\* frame: a pandas DataFrame raises ValueError there.
macd_generate_signals(d) ==
    LET f == d.m15 IN
    IF f = None THEN [raised |-> FALSE, signals |-> <<>>]
    ELSE IF f.truth = "ambiguous" THEN [raised |-> TRUE, signals |-> <<>>]
    ELSE IF f.rows = 0 THEN [raised |-> FALSE, signals |-> <<>>]
    ELSE IF macd_check_entry_conditions(f, d.daily)
    THEN [raised |-> FALSE, signals |-> <<macd_create_buy_signal(f)>>]
    ELSE [raised |-> FALSE, signals |-> <<>>]

\* a sizing of MacdRsiStrategy with the multiplier of SuperTrendStrategy
macd_size_with_st_multiplier(price, atr, available_capital) ==
    IF atr <= 0 \/ price <= 0 THEN 0
    ELSE Min(IntDiv(available_capital * risk_per_trade * 10, 100 * atr * st_stop_loss_atr_mult),
             IntDiv(available_capital * max_position_size, 100 * price))

\* MacdRsiStrategy.calculate_position_size
macd_calculate_position_size(price, atr, available_capital) ==
    IF atr <= 0 \/ price <= 0 THEN 0
    ELSE Min(IntDiv(available_capital * risk_per_trade * 10, 100 * atr * macd_stop_loss_atr_mult),
             IntDiv(available_capital * max_position_size, 100 * price))

\* MacdRsiStrategy.should_exit(position, current_data): [exit, reason]
macd_should_exit(pos, f) ==
    IF pos.entry_price <= 0 \/ f.close <= 0 THEN Ret(FALSE, "")
    ELSE IF Rsi(f) < 70 /\ f.close < BbUpper(f)
    THEN Ret(TRUE, "Momentum weakening (RSI < 70, price < BB upper)")
    ELSE IF HasCol(f, "supertrend_direction") /\ KeyError(f, "supertrend_direction")
    THEN RaisedError
    ELSE IF HasCol(f, "supertrend_direction") /\ f.dir_last < 0
    THEN Ret(TRUE, "SuperTrend turned bearish")
    ELSE IF pos.stop_loss_price # 0 /\ f.close <= pos.stop_loss_price
    THEN Ret(TRUE, "Stop loss hit")
    ELSE IF pos.take_profit_price # 0 /\ f.close >= pos.take_profit_price
    THEN Ret(TRUE, "Profit target reached")
    ELSE IF HasCol(f, "chandelier_exit") /\ KeyError(f, "chandelier_exit")
    THEN RaisedError
    ELSE IF HasCol(f, "chandelier_exit") /\ f.close < f.chandelier_exit
    THEN Ret(TRUE, "Chandelier Exit triggered")
    ELSE Ret(FALSE, "")

----------------------------------------------------------------------------
(* Dispatch on the strategy instance *)

generate_signals(st, d) ==
    IF st = "SuperTrend" THEN st_generate_signals(d) ELSE macd_generate_signals(d)

calculate_position_size(st, price, atr, available_capital) ==
    IF st = "SuperTrend" THEN st_calculate_position_size(price, atr, available_capital)
    ELSE macd_calculate_position_size(price, atr, available_capital)

should_exit(st, pos, f) ==
    IF st = "SuperTrend" THEN st_should_exit(pos, f) ELSE macd_should_exit(pos, f)

\* TradingEngine._get_strategy_by_name: the first strategy whose lower-cased
\* name equals the lower-cased argument, else None
get_strategy_by_name(name) ==
    LET hits == {i \in 1..Len(strategies) : Lower(strategies[i]) = Lower(name)} IN
    IF hits = {} THEN "None"
    ELSE strategies[CHOOSE i \in hits : \A j \in hits : i <= j]

----------------------------------------------------------------------------
(* Market data: what DataProvider.get_historical_data returns.              *)
(* A frame is described by what the code reads of it: its truth value (a   *)
(* pandas DataFrame has none: bool(df) raises ValueError; "defined" is a   *)
(* frame object that is true when non-empty), whether a required column is *)
(* absent, its number of rows, its 'symbol' column ("UNKNOWN" when the     *)
(* frame has none) and the values of its last rows once the indicators     *)
(* are computed.                                                           *)

\* ta.ema(df['close'], length=200): the longest warm-up of _add_indicators
ema200_length == 200

\* the columns _add_indicators adds (engine.py:238-267)
IndicatorCols ==
    {"atr", "supertrend", "supertrend_direction", "macd_line", "macd_signal",
     "rsi_14", "bb_lower", "bb_upper", "ema200", "chandelier_exit"}

BaseFrame ==
    [truth |-> "defined", cols |-> IndicatorCols, missing_high |-> FALSE, enriched |-> FALSE, rows |-> 300,
     symbol |-> "UNKNOWN", close |-> 100, atr |-> 2, dir_prev |-> 1, dir_last |-> 1,
     supertrend |-> 95, vol_ok |-> TRUE, mono5 |-> FALSE, macd_line |-> 0,
     macd_signal |-> 1, rsi_14 |-> 50, bb_lower |-> 90, bb_upper |-> 110,
     chandelier_exit |-> 90, ema200 |-> 90]

\* the 15-minute frames the provider may return for a symbol
M15Raw(sym) ==
    {[BaseFrame EXCEPT !.symbol = s, !.close = c, !.dir_prev = dp, !.dir_last = dl,
                       !.supertrend = IF dl > 0 THEN c - 5 ELSE c + 5,
                       !.macd_line = m, !.bb_lower = c - 10, !.bb_upper = c + 10,
                       !.chandelier_exit = c - 10] :
        s \in {sym, "UNKNOWN"}, c \in {100, 900}, dp \in {-1, 1}, dl \in {-1, 1},
        m \in {0, 2}}
    \cup {[BaseFrame EXCEPT !.symbol = sym, !.rows = r] : r \in {0, 50, 200}}
    \cup {[BaseFrame EXCEPT !.symbol = sym, !.missing_high = TRUE]}
    \cup {[BaseFrame EXCEPT !.symbol = sym, !.truth = "ambiguous", !.dir_prev = -1,
                            !.macd_line = 2, !.rows = r, !.missing_high = mh] :
            r \in {50, 300}, mh \in BOOLEAN}

\* the daily frames the provider may return: close above or below the EMA200
DailyRaw ==
    {[BaseFrame EXCEPT !.rows = r, !.close = c] : r \in {300, 400}, c \in {80, 100}}

\* an _add_indicators that computes the indicators whatever columns exist
add_indicators_unguarded(df) ==
    [df EXCEPT !.enriched = TRUE,
               !.rows = IF df.rows >= ema200_length
                        THEN df.rows - (ema200_length - 1) ELSE 0]

\* TradingEngine._add_indicators(df): a missing column makes calculate_supertrend
\* raise; the exception is caught and the frame returned as it is.  Otherwise
\* the indicator columns are added and dropna removes the warm-up rows.
add_indicators(df) ==
    IF df.missing_high THEN df
    ELSE [df EXCEPT !.enriched = TRUE,
                    !.rows = IF df.rows >= ema200_length
                             THEN df.rows - (ema200_length - 1) ELSE 0]

\* the daily frame as check_daily_trend reads it
DailyView(df) == [rows |-> df.rows, close |-> df.close, ema200 |-> df.ema200]

\* TradingEngine._get_symbol_data: raised = a get_historical_data call raised;
\* a frame that is None or empty is left out of the dictionary
EmptyData == [daily |-> None, m15 |-> None]

get_symbol_data(raised, daily_df, fifteen_df) ==
    IF raised THEN EmptyData
    ELSE [daily |-> IF daily_df = None THEN None ELSE DailyView(add_indicators(daily_df)),
          m15   |-> IF fifteen_df = None \/ fifteen_df.rows = 0 THEN None
                    ELSE add_indicators(fifteen_df)]

----------------------------------------------------------------------------
(* Portfolio collaborator *)

\* PortfolioManager.get_position(symbol): the open position of the symbol
get_position(sym) ==
    LET hits == {i \in 1..Len(positions) : positions[i].symbol = sym} IN
    IF hits = {} THEN None
    ELSE positions[CHOOSE i \in hits : \A j \in hits : i <= j]

\* PortfolioManager.close_position(symbol, ...): the positions left open
RemoveFirst(sym) ==
    LET hits == {i \in 1..Len(positions) : positions[i].symbol = sym}
        k    == CHOOSE i \in hits : \A j \in hits : i <= j
    IN  IF hits = {} THEN positions
        ELSE SubSeq(positions, 1, k - 1) \o SubSeq(positions, k + 1, Len(positions))

\* PortfolioManager.add_position / close_position: the available capital is
\* reduced by the cost of a recorded position and credited with the proceeds
\* of a closed one
CapitalAfterAdd(cap, qty, price) == cap - qty * price
CapitalAfterClose(cap, qty, price) == cap + qty * price

----------------------------------------------------------------------------
(* TradingEngine.execute_cycle *)

Event(op, sym, who, qty, price, res) ==
    [op |-> op, sym |-> sym, who |-> who, qty |-> qty, price |-> price, res |-> res,
     cap |-> 0]

\* no strategy or indicator function was called directly
NoCall == [fn |-> "none"]

NewResults ==
    [signals_generated |-> 0, orders_placed |-> 0, orders_failed |-> 0,
     positions_exited |-> 0, errors |-> <<>>]

Blocked == [sym |-> "", cause |-> "Trading blocked by risk manager"]

\* the except clause of the loop body (engine.py:131-133)
RecordError(res, sym, cause) ==
    [res EXCEPT !.errors = Append(@, [sym |-> sym, cause |-> cause])]

Init ==
    /\ pc = "idle"
    /\ cycle = 0
    /\ idx = 0
    /\ results = NewResults
    /\ positions = <<>>
    /\ capital = Capital0
    /\ position = None
    /\ data = EmptyData
    /\ all_signals = <<>>
    /\ gate = TRUE
    /\ seen = <<>>
    /\ log = <<>>
    /\ call = NoCall

\* a gate that lets every cycle through
CycleProceedsMut(can_trade) == TRUE

\* the gate of execute_cycle (engine.py:113): TRUE when the cycle goes on
CycleProceeds(can_trade) == can_trade

\* execute_cycle up to the loop: fresh results, then the risk gate
StartCycle ==
    /\ pc \in {"idle", "done"}
    /\ cycle < MaxCycles
    /\ cycle' = cycle + 1
    /\ seen' = <<>>
    /\ log' = <<>>
    /\ idx' = 1
    /\ \E can_trade \in BOOLEAN :
          /\ gate' = can_trade
          /\ IF CycleProceeds(can_trade)
             THEN /\ results' = NewResults
                  /\ pc' = "loop"
             ELSE /\ results' = [NewResults EXCEPT !.errors = <<Blocked>>]
                  /\ pc' = "done"
    /\ UNCHANGED <<call, positions, capital, position, data, all_signals>>

\* a loop that an exception ends
AfterErrorAbort == "done"

\* where the loop goes after an exception reached the per-symbol guard
\* (engine.py:131-133): on to the next symbol
AfterError == "next"

\* the head of the loop body: portfolio.get_position(symbol), which may raise
LoopBody ==
    /\ pc = "loop"
    /\ idx <= Len(symbols)
    /\ \E r \in {"ok", "raise"} :
          LET sym == symbols[idx]
              pos == get_position(sym) IN
          /\ log' = <<Event("get_position", sym, "", 0, 0, r)>>
          /\ IF r = "raise"
             THEN /\ results' = RecordError(results, sym, "get_position failed")
                  /\ seen' = Append(seen, [sym |-> sym, branch |-> "error"])
                  /\ position' = None
                  /\ pc' = AfterError
             ELSE /\ results' = results
                  /\ position' = pos
                  /\ seen' = Append(seen, [sym |-> sym,
                                           branch |-> IF pos # None THEN "exit" ELSE "entry"])
                  /\ pc' = IF pos # None THEN "exit" ELSE "entry"
    /\ UNCHANGED <<call, cycle, idx, positions, capital, data, all_signals, gate>>

\* the end of the loop: last_execution_time is set and the results returned
FinishCycle ==
    /\ pc = "loop"
    /\ idx > Len(symbols)
    /\ pc' = "done"
    /\ UNCHANGED <<call, cycle, idx, results, positions, capital, position, data,
                   all_signals, gate, seen, log>>

\* the loop moves to the next symbol; the locals of the body are dropped
NextSymbol ==
    /\ pc = "next"
    /\ pc' = "loop"
    /\ idx' = idx + 1
    /\ position' = None
    /\ data' = EmptyData
    /\ all_signals' = <<>>
    /\ log' = <<>>
    /\ UNCHANGED <<call, cycle, results, positions, capital, gate, seen>>

----------------------------------------------------------------------------
(* TradingEngine._check_entry_signals *)

\* a frame test that fails on a missing series instead of returning
FrameGuardStrict(d) ==
    IF d.m15 = None THEN "raise"
    ELSE IF d.m15.truth = "ambiguous" THEN "raise"
    ELSE IF d.m15.rows = 0 THEN "return"
    ELSE "go"

\* `not data or not data.get('15min') or data['15min'].empty` (engine.py:147,
\* engine.py:181): "return" when the test is true, "go" when it is false,
\* "raise" when taking the truth value of the frame raises ValueError
FrameGuard(d) ==
    IF d.m15 = None THEN "return"
    ELSE IF d.m15.truth = "ambiguous" THEN "raise"
    ELSE IF d.m15.rows = 0 THEN "return"
    ELSE "go"

\* the order in which the strategies are asked for signals (engine.py:152)
StrategyOrder == [i \in 1..Len(strategies) |-> i]

\* the loop over self.strategies (engine.py:152-157): the signals of the
\* strategies StrategyOrder[1..n], concatenated; a strategy that raises adds none
RECURSIVE CollectSignals(_, _)
CollectSignals(d, n) ==
    IF n = 0 THEN <<>>
    ELSE LET r == generate_signals(strategies[StrategyOrder[n]], d) IN
         CollectSignals(d, n - 1) \o (IF r.raised THEN <<>> ELSE r.signals)

\* the generate_signals calls of that loop, in call order
RECURSIVE CollectCalls(_, _, _)
CollectCalls(sym, d, n) ==
    IF n = 0 THEN <<>>
    ELSE LET st == strategies[StrategyOrder[n]]
             r  == generate_signals(st, d) IN
         Append(CollectCalls(sym, d, n - 1),
                Event("generate_signals", sym, st, 0, 0,
                      IF r.raised THEN "raise" ELSE "ok"))

FetchEvents(sym, raised) ==
    IF raised THEN <<Event("get_historical_data", sym, "day", 0, 0, "raise")>>
    ELSE <<Event("get_historical_data", sym, "day", 0, 0, "ok"),
           Event("get_historical_data", sym, "hour", 0, 0, "ok"),
           Event("get_historical_data", sym, "15minute", 0, 0, "ok")>>

\* _check_entry_signals up to the signal loop (engine.py:145-157)
EntryWith(raised, daily_df, fifteen_df) ==
    LET sym == symbols[idx]
        d   == get_symbol_data(raised, daily_df, fifteen_df)
        g   == FrameGuard(d) IN
    /\ data' = d
    /\ IF g = "return"
       THEN /\ log' = log \o FetchEvents(sym, raised)
            /\ all_signals' = <<>>
            /\ results' = results
            /\ pc' = "next"
       ELSE IF g = "raise"
       THEN /\ log' = log \o FetchEvents(sym, raised)
            /\ all_signals' = <<>>
            /\ results' = RecordError(results, sym, "ValueError: truth value of a DataFrame")
            /\ pc' = AfterError
       ELSE /\ log' = log \o FetchEvents(sym, raised)
                        \o CollectCalls(sym, d, Len(strategies))
            /\ all_signals' = CollectSignals(d, Len(strategies))
            /\ results' = results
            /\ pc' = IF all_signals' = <<>> THEN "next" ELSE "signals"
    /\ UNCHANGED <<call, cycle, idx, positions, capital, position, gate, seen>>

CheckEntrySignals ==
    /\ pc = "entry"
    /\ \/ EntryWith(TRUE, None, None)
       \/ \E daily_df \in DailyRaw \cup {None}, fifteen_df \in M15Raw(symbols[idx]) \cup {None} :
             EntryWith(FALSE, daily_df, fifteen_df)

\* a validation without the capital test
validate_signal_no_capital(sig, can_open, cap) ==
    /\ can_open
    /\ ~(sig.confidence < min_confidence)

\* TradingEngine._validate_signal(signal, data): can_open is the answer of
\* risk_manager.can_open_position(), cap of portfolio.get_available_capital()
validate_signal(sig, can_open, cap) ==
    /\ can_open
    /\ ~(sig.price * (IF sig.position_size = None THEN 1 ELSE sig.position_size) > cap)
    /\ ~(sig.confidence < min_confidence)

\* the strategy name _execute_buy_signal derives from the signal (engine.py:313, 342)
SignalStrategyName(sig) == FirstWord(sig.reason)

\* the quantity of _execute_buy_signal (engine.py:307-321)
BuyQty(sig, d, cap) ==
    LET atr == AtrOrDefault(d.m15)
        st  == get_strategy_by_name(SignalStrategyName(sig)) IN
    IF st # "None" THEN calculate_position_size(st, sig.price, atr, cap)
    ELSE IF atr * fallback_atr_mult > 0
         THEN IntDiv(cap * fallback_risk_pct * 10, 100 * atr * fallback_atr_mult)
         ELSE 0

\* the position _execute_buy_signal records (engine.py:337-346); origin is
\* history: the strategy that generated the signal
NewPosition(sig, qty) ==
    [symbol |-> sig.symbol, qty |-> qty, entry_price |-> sig.price,
     strategy |-> SignalStrategyName(sig), stop_loss_price |-> sig.stop_loss,
     take_profit_price |-> sig.take_profit, order_id |-> "OID",
     origin |-> sig.origin]

\* RiskManager.can_open_position(): free below the position limit, no at it
CanOpenAnswers == IF Len(positions) < MaxOpenPositions THEN BOOLEAN ELSE {FALSE}

\* an engine that takes every answer of the broker for an order id
OrderPlacedAlways(answer) == TRUE

\* whether the answer of the broker to an order counts as placed (`if order_id:`)
OrderPlaced(answer) == answer = "ok"

\* one iteration of the signal loop (engine.py:160-173), _validate_signal and
\* _execute_buy_signal included
ProcessSignal ==
    /\ pc = "signals"
    /\ all_signals # <<>>
    /\ LET sig == Head(all_signals)
           sym == symbols[idx]
           qty == BuyQty(sig, data, capital)
           counted == [results EXCEPT !.signals_generated = @ + 1] IN
       \E can_open \in CanOpenAnswers, answer \in {"ok", "none", "raise"} :
          LET asked == Event("can_open_position", sym, sig.origin, 0, 0,
                             IF can_open THEN "yes" ELSE "no")
              order == [Event("place_buy_order", sig.symbol, sig.origin, qty, sig.price, answer)
                          EXCEPT !.cap = capital]
              added == Event("add_position", sig.symbol, sig.origin, qty, sig.price, "ok") IN
          IF ~validate_signal(sig, can_open, capital)
          THEN /\ answer = "ok"
               /\ results' = counted
               /\ log' = Append(log, asked)
               /\ UNCHANGED <<positions, capital>>
          ELSE IF qty <= 0
          THEN /\ answer = "ok"
               /\ results' = [counted EXCEPT !.orders_failed = @ + 1]
               /\ log' = Append(log, asked)
               /\ UNCHANGED <<positions, capital>>
          ELSE IF OrderPlaced(answer)
          THEN /\ results' = [counted EXCEPT !.orders_placed = @ + 1]
               /\ log' = log \o <<asked, order, added>>
               /\ positions' = Append(positions, NewPosition(sig, qty))
               /\ capital' = CapitalAfterAdd(capital, qty, sig.price)
          ELSE /\ results' = [counted EXCEPT !.orders_failed = @ + 1]
               /\ log' = log \o <<asked, order>>
               /\ UNCHANGED <<positions, capital>>
    /\ all_signals' = Tail(all_signals)
    /\ pc' = IF all_signals' = <<>> THEN "next" ELSE "signals"
    /\ UNCHANGED <<call, cycle, idx, position, data, gate, seen>>

----------------------------------------------------------------------------
(* TradingEngine._check_exit_conditions and _execute_sell_signal *)

\* the prices broker.get_current_price may answer; 0 stands for no price
BrokerPrices == {0, 100}

\* a sell of one share whatever the position holds
SellOneShare(pos) == 1

\* the quantity _execute_sell_signal sells (engine.py:362)
SellQty(pos) == pos.qty

\* _check_exit_conditions (engine.py:175-197) with the _execute_sell_signal it calls
ExitWith(raised, daily_df, fifteen_df, current_price, answer) ==
    LET sym == symbols[idx]
        d   == get_symbol_data(raised, daily_df, fifteen_df)
        g   == FrameGuard(d)
        st  == get_strategy_by_name(position.strategy)
        ex  == should_exit(st, position, d.m15)
        fetched == log \o FetchEvents(sym, raised)
        called  == Append(fetched, Event("should_exit", sym, st, 0, 0,
                                         IF ex.exit THEN "exit" ELSE "hold"))
        priced  == Append(called, Event("get_current_price", sym, st, 0, current_price, "ok"))
        order   == Event("place_sell_order", sym, st, SellQty(position), current_price, answer)
        closing == Event("close_position", sym, st, SellQty(position), current_price, ex.reason)
    IN
    /\ data' = d
    /\ IF g = "return"
       THEN /\ current_price = 0 /\ answer = "ok"
            /\ log' = fetched
            /\ results' = results
            /\ pc' = "next"
            /\ UNCHANGED <<positions, capital>>
       ELSE IF g = "raise"
       THEN /\ current_price = 0 /\ answer = "ok"
            /\ log' = fetched
            /\ results' = RecordError(results, sym, "ValueError: truth value of a DataFrame")
            /\ pc' = AfterError
            /\ UNCHANGED <<positions, capital>>
       ELSE IF st = "None"
       THEN /\ current_price = 0 /\ answer = "ok"
            /\ log' = fetched
            /\ results' = results
            /\ pc' = "next"
            /\ UNCHANGED <<positions, capital>>
       ELSE IF ~ex.exit
       THEN /\ current_price = 0 /\ answer = "ok"
            /\ log' = called
            /\ results' = results
            /\ pc' = "next"
            /\ UNCHANGED <<positions, capital>>
       ELSE IF current_price = 0
       THEN /\ answer = "ok"
            /\ log' = priced
            /\ results' = results
            /\ pc' = "next"
            /\ UNCHANGED <<positions, capital>>
       ELSE IF OrderPlaced(answer)
       THEN /\ log' = priced \o <<order, closing>>
            /\ results' = [results EXCEPT !.positions_exited = @ + 1]
            /\ positions' = RemoveFirst(sym)
            /\ capital' = CapitalAfterClose(capital, SellQty(position), current_price)
            /\ pc' = "next"
       ELSE /\ log' = Append(priced, order)
            /\ results' = results
            /\ pc' = "next"
            /\ UNCHANGED <<positions, capital>>
    /\ UNCHANGED <<call, cycle, idx, position, all_signals, gate, seen>>

CheckExitConditions ==
    /\ pc = "exit"
    /\ \/ ExitWith(TRUE, None, None, 0, "ok")
       \/ \E daily_df \in DailyRaw \cup {None}, fifteen_df \in M15Raw(symbols[idx]) \cup {None},
             current_price \in BrokerPrices, answer \in {"ok", "none", "raise"} :
             ExitWith(FALSE, daily_df, fifteen_df, current_price, answer)

----------------------------------------------------------------------------

Next ==
    \/ StartCycle
    \/ LoopBody
    \/ CheckEntrySignals
    \/ ProcessSignal
    \/ CheckExitConditions
    \/ NextSymbol
    \/ FinishCycle

Spec == Init /\ [][Next]_vars

----------------------------------------------------------------------------
(* Vocabulary of the properties *)

Last(q) == q[Len(q)]

\* the indices of the events of a log that are calls of op
Calls(lg, op) == {i \in 1..Len(lg) : lg[i].op = op}

\* the events a step appended to the log
Appended == SubSeq(log', Len(log) + 1, Len(log'))

Counters(res) ==
    <<res.signals_generated, res.orders_placed, res.orders_failed, res.positions_exited>>

\* the error strings the running cycle recorded for a symbol
ErrorsFor(sym) == {i \in 1..Len(results.errors) : results.errors[i].sym = sym}

\* the symbol being processed
CurSym == symbols[idx]

----------------------------------------------------------------------------
\* C1  When risk_manager.can_trade() answers false, execute_cycle returns at
\*     once: no symbol is looked up, fetched or handed to a strategy, no order
\*     is sent, the positions and the capital stay as they were, and the four
\*     counters of the returned result are 0.
C1_BlockedCycleProcessesNothing ==
    /\ [](~gate => /\ pc = "done"
                   /\ seen = <<>>
                   /\ log = <<>>
                   /\ Counters(results) = <<0, 0, 0, 0>>)
    /\ [][~gate' => (positions' = positions /\ capital' = capital)]_vars

\* a blocked cycle that started with an open position
C1_Witness == pc = "done" /\ ~gate /\ positions # <<>>

\* C2  Every recorded position is tagged with a name under which the engine
\*     finds the strategy that generated the signal.
C2_PositionFindsItsStrategy ==
    \A i \in 1..Len(positions) :
        get_strategy_by_name(positions[i].strategy) = positions[i].origin

----------------------------------------------------------------------------
(* Exit path: what a _check_exit_conditions step did, read from the log *)

\* should_exit returned true in the step
ExitDecided ==
    /\ pc = "exit"
    /\ \E i \in Calls(log', "should_exit") : log'[i].res = "exit"

\* the sell orders, price requests and close_position calls of the step
SellIdx  == Calls(log', "place_sell_order")
PriceIdx == Calls(log', "get_current_price")
CloseIdx == Calls(log', "close_position")

\* the answer of should_exit of the owning strategy on the fetched bar
ExitAnswer == should_exit(get_strategy_by_name(position.strategy), position, data'.m15)

\* the position is closed: one close_position with the reason of should_exit,
\* the position gone from the portfolio, the exit counted
PositionClosed ==
    /\ Cardinality(CloseIdx) = 1
    /\ \A i \in CloseIdx : log'[i].res = ExitAnswer.reason /\ log'[i].sym = position.symbol
    /\ Len(positions') = Len(positions) - 1
    /\ get_position(position.symbol)' # position
    /\ results'.positions_exited = results.positions_exited + 1

PositionKept ==
    /\ CloseIdx = {}
    /\ positions' = positions
    /\ results'.positions_exited = results.positions_exited

\* C3 as stated: whenever should_exit returns true the engine sends exactly
\*     one sell order for the full quantity at the latest price, closes the
\*     position with the reason of should_exit and counts it; no buy order.
C3_ExitAlwaysSellsAndCloses ==
    [][ExitDecided =>
          /\ Cardinality(SellIdx) = 1
          /\ \A i \in SellIdx : \A j \in PriceIdx :
                log'[i].qty = position.qty /\ log'[i].price = log'[j].price
          /\ PositionClosed
          /\ Calls(log', "place_buy_order") = {}]_vars

\* C3 amended: when should_exit returns true the engine asks the broker for
\*     the current price once; it sends one sell order for the full quantity
\*     at that price exactly when the broker gave a price, none otherwise; it
\*     closes the position with the reason of should_exit and counts it
\*     exactly when that order returned an order id, and otherwise leaves the
\*     position open and positions_exited unchanged; no buy order is sent
\*     while the symbol is processed.
C3_ExitSellsWhenBrokerAnswers ==
    [][ExitDecided =>
          /\ Cardinality(PriceIdx) = 1
          /\ \A j \in PriceIdx :
                /\ Cardinality(SellIdx) = (IF log'[j].price # 0 THEN 1 ELSE 0)
                /\ \A i \in SellIdx :
                      log'[i].qty = position.qty /\ log'[i].price = log'[j].price
          /\ IF \E i \in SellIdx : log'[i].res = "ok" THEN PositionClosed ELSE PositionKept
          /\ Calls(log', "place_buy_order") = {}
          /\ pc' = "next"]_vars

\* a position of two shares was sold and closed on an exit signal
C3_Witness ==
    /\ pc = "next"
    /\ \E i \in Calls(log, "should_exit") : log[i].res = "exit"
    /\ \E i \in Calls(log, "close_position") : log[i].qty = 2
    /\ results.positions_exited = 1

----------------------------------------------------------------------------
\* no call of a collaborator failed while the current symbol was processed
NoCollaboratorFailed == \A i \in 1..Len(log) : log[i].res \notin {"raise", "none"}

\* the strategies asked for signals while the current symbol was processed, in call order
RECURSIVE AskedStrategies(_)
AskedStrategies(lg) ==
    IF lg = <<>> THEN <<>>
    ELSE IF Head(lg).op = "generate_signals" THEN <<Head(lg).who>> \o AskedStrategies(Tail(lg))
    ELSE AskedStrategies(Tail(lg))

\* the strategies whose signals went through the signal loop, in loop order
RECURSIVE ProcessedOrigins(_)
ProcessedOrigins(lg) ==
    IF lg = <<>> THEN <<>>
    ELSE IF Head(lg).op = "can_open_position" THEN <<Head(lg).who>> \o ProcessedOrigins(Tail(lg))
    ELSE ProcessedOrigins(Tail(lg))

\* C4  For a symbol without open position whose 15-minute bars are available
\*     and non-empty, every enabled strategy is asked for signals exactly
\*     once, in registration order, the BUY signals are processed in that
\*     order, and no error is recorded for the symbol when no collaborator fails.
C4_EveryStrategyAskedInOrder ==
    (/\ pc = "next"
     /\ Last(seen).branch = "entry"
     /\ data.m15 # None
     /\ data.m15.rows > 0
     /\ NoCollaboratorFailed)
    => /\ AskedStrategies(log) = strategies
       /\ ErrorsFor(CurSym) = {}
       /\ \A i, j \in 1..Len(ProcessedOrigins(log)) :
             (i < j /\ ProcessedOrigins(log)[i] = "MACD_RSI")
                => ProcessedOrigins(log)[j] # "SuperTrend"

----------------------------------------------------------------------------
\* a step in which an exception reached the per-symbol guard of execute_cycle:
\* portfolio.get_position raised, or the truth value of the frame was taken
RaisedStep ==
    \/ /\ pc = "loop"
       /\ log' # <<>>
       /\ Last(log').op = "get_position"
       /\ Last(log').res = "raise"
    \/ /\ pc \in {"entry", "exit"}
       /\ FrameGuard(data') = "raise"

\* the symbols the loop body was entered for, in order
SeenSymbols == [i \in 1..Len(seen) |-> seen[i].sym]

\* C5  An exception raised while one symbol is processed does not abort the
\*     cycle: the failing symbol adds exactly one error string, the counters
\*     accumulated so far are kept, the loop goes on to the next symbol, and a
\*     cycle that passed the risk gate ends only after every symbol of the
\*     list was processed.
C5_ExceptionDoesNotAbortCycle ==
    /\ [][RaisedStep =>
            /\ Len(results'.errors) = Len(results.errors) + 1
            /\ SubSeq(results'.errors, 1, Len(results.errors)) = results.errors
            /\ Last(results'.errors).sym = symbols[idx]
            /\ Counters(results') = Counters(results)
            /\ positions' = positions
            /\ pc' = "next"]_vars
    /\ []((pc = "done" /\ gate) => SeenSymbols = symbols)

\* the first symbol failed, the second one was processed and bought
C5_Witness ==
    /\ pc = "done"
    /\ gate
    /\ Len(seen) = 2
    /\ seen[1].branch = "error"
    /\ Len(results.errors) = 1
    /\ results.orders_placed >= 1

----------------------------------------------------------------------------
\* add_position directly follows a buy request that returned an order id,
\* close_position a sell request that returned one, for the same order
RecordedOnlyAfterOrderId ==
    \A i \in 1..Len(log) :
        /\ log[i].op = "add_position" =>
              /\ i > 1
              /\ log[i-1].op = "place_buy_order"
              /\ log[i-1].res = "ok"
              /\ <<log[i-1].sym, log[i-1].qty, log[i-1].price>> = <<log[i].sym, log[i].qty, log[i].price>>
        /\ log[i].op = "close_position" =>
              /\ i > 1
              /\ log[i-1].op = "place_sell_order"
              /\ log[i-1].res = "ok"
              /\ <<log[i-1].sym, log[i-1].qty, log[i-1].price>> = <<log[i].sym, log[i].qty, log[i].price>>

\* a step of the signal loop in which the broker returned no order id
BuyRefusedStep ==
    /\ pc = "signals"
    /\ Len(log') > Len(log)
    /\ Last(log').op = "place_buy_order"
    /\ Last(log').res = "none"

\* C6  When the broker returns no order id for a buy request the engine
\*     increments orders_failed, records no position and goes on with the
\*     remaining signals and symbols; add_position is called only after a buy
\*     request returned an order id, close_position only after a sell request
\*     returned one, and the portfolio changes in no other way.
C6_PositionsFollowOrderIds ==
    /\ []RecordedOnlyAfterOrderId
    /\ [][BuyRefusedStep =>
            /\ results'.orders_failed = results.orders_failed + 1
            /\ results'.orders_placed = results.orders_placed
            /\ results'.errors = results.errors
            /\ positions' = positions
            /\ all_signals' = Tail(all_signals)
            /\ pc' = (IF all_signals' = <<>> THEN "next" ELSE "signals")]_vars
    /\ [][positions' # positions =>
            /\ Len(log') > Len(log)
            /\ Last(log').op \in {"add_position", "close_position"}]_vars

\* a buy request without order id, and the next signal of the symbol bought
C6_Witness ==
    \E i, j \in 1..Len(log) :
        /\ i < j
        /\ log[i].op = "place_buy_order" /\ log[i].res = "none"
        /\ log[j].op = "add_position"
        /\ results.orders_failed = 1
        /\ results.orders_placed = 1

----------------------------------------------------------------------------
\* the size estimate of _validate_signal (engine.py:288)
SizeEstimate(sig) == IF sig.position_size = None THEN 1 ELSE sig.position_size

\* a step of the signal loop whose signal meets one of the three rejections
RejectedStep ==
    /\ pc = "signals"
    /\ LET sig == Head(all_signals) IN
       \/ log'[Len(log) + 1].res = "no"
       \/ sig.price * SizeEstimate(sig) > capital
       \/ sig.confidence < min_confidence

\* C7  A BUY signal for which can_open_position() is false, or whose price
\*     times size estimate exceeds the available capital, or whose confidence
\*     is below 0.5, is dropped silently: it is counted as generated, no
\*     order is placed, no position recorded, no error added, and neither
\*     orders_placed nor orders_failed changes.
C7_RejectedSignalDroppedSilently ==
    [][RejectedStep =>
          /\ results' = [results EXCEPT !.signals_generated = @ + 1]
          /\ Len(log') = Len(log) + 1
          /\ Last(log').op = "can_open_position"
          /\ positions' = positions
          /\ capital' = capital
          /\ all_signals' = Tail(all_signals)]_vars

\* a signal the risk manager allowed was dropped for lack of capital
C7_Witness ==
    /\ pc \in {"signals", "next"}
    /\ log # <<>>
    /\ Last(log).op = "can_open_position"
    /\ Last(log).res = "yes"
    /\ capital < 900
    /\ data.m15 # None
    /\ data.m15.close = 900
    /\ results.signals_generated >= 1
    /\ results.orders_failed = 0

----------------------------------------------------------------------------
\* C8  The quantity of every buy request equals calculate_position_size of
\*     the strategy that generated the signal, at the signal's price, the ATR
\*     of the latest bar and the capital available at the request.
C8_QuantityFromGeneratingStrategy ==
    \A i \in Calls(log, "place_buy_order") :
        log[i].qty = calculate_position_size(log[i].who, log[i].price,
                                             AtrOrDefault(data.m15), log[i].cap)

----------------------------------------------------------------------------
\* a step in which the 15-minute series of the symbol was missing or empty
\* as fetched: a fetch raised, or the provider returned nothing or no rows
SkipStep ==
    /\ pc \in {"entry", "exit"}
    /\ data'.m15 = None

\* no strategy was called and no order sent in the step
NothingDone ==
    \A i \in Len(log) + 1..Len(log') :
        log'[i].op \notin {"generate_signals", "should_exit", "place_buy_order",
                           "place_sell_order", "add_position", "close_position"}

\* C9 as stated: a symbol whose bars are missing or empty is skipped, the
\*     skip is recorded in the cycle result, and the loop continues.
C9_SkipIsRecorded ==
    [][SkipStep => /\ NothingDone
                   /\ results' # results
                   /\ pc' = "next"]_vars

\* C9 amended: a symbol whose bars are missing or empty as fetched is
\*     skipped: no strategy is called, no order is sent, the portfolio and
\*     the cycle result stay as they are (nothing is recorded for the skip),
\*     and the loop continues with the next symbol.
C9_SkipLeavesResultUntouched ==
    [][SkipStep => /\ NothingDone
                   /\ results' = results
                   /\ positions' = positions
                   /\ capital' = capital
                   /\ all_signals' = <<>>
                   /\ pc' = "next"]_vars

\* the provider answered every request and the 15-minute series was empty
C9_Witness ==
    /\ pc = "next"
    /\ Last(seen).branch = "entry"
    /\ data.m15 = None
    /\ Len(log) = 4
    /\ Last(log).who = "15minute"
    /\ Last(log).res = "ok"

----------------------------------------------------------------------------
\* the symbol was processed on 15-minute bars that lack a required column
IndicatorFailed ==
    /\ pc \in {"signals", "next"}
    /\ data.m15 # None
    /\ data.m15.missing_high

\* the error strings recorded for the symbol in this cycle
CausesFor(sym) == {results.errors[i].cause : i \in ErrorsFor(sym)}

\* C10 as stated: the failure of the indicator computation is recorded as an
\*     error string for the symbol and no signal is generated.
C10_IndicatorErrorRecorded ==
    IndicatorFailed =>
        /\ "KeyError: high" \in CausesFor(CurSym)
        /\ all_signals = <<>>

\* C10 amended: when an indicator computation fails because a required
\*     column is absent, _add_indicators catches the error and returns the
\*     bars without indicator columns; the error is not recorded in the cycle
\*     result (the only error the symbol can get is the one of the frame test
\*     of the engine); SuperTrend fails when it is asked for signals on these
\*     bars, which the strategy loop only logs, no strategy generates a
\*     signal, no buy order is sent, and the cycle continues with the next
\*     symbol.
C10_IndicatorErrorSwallowed ==
    IndicatorFailed =>
        /\ pc = "next"
        /\ ~data.m15.enriched
        /\ CausesFor(CurSym) \subseteq {"ValueError: truth value of a DataFrame"}
        /\ all_signals = <<>>
        /\ \A i \in 1..Len(log) :
              /\ (log[i].op = "generate_signals" /\ log[i].who = "SuperTrend")
                    => log[i].res = "raise"
              /\ log[i].op \notin {"can_open_position", "place_buy_order", "add_position"}

\* both strategies were asked on bars without indicator columns: SuperTrend
\* failed, MACD_RSI found nothing
C10_Witness ==
    /\ pc = "next"
    /\ data.m15 # None
    /\ data.m15.missing_high
    /\ Last(seen).branch = "entry"
    /\ AskedStrategies(log) = strategies
    /\ \E i \in Calls(log, "generate_signals") :
          log[i].who = "SuperTrend" /\ log[i].res = "raise"
    /\ ErrorsFor(CurSym) = {}

----------------------------------------------------------------------------
(* Direct calls of the strategy functions.  A behaviour is one call with   *)
(* arguments drawn from a small set; `call` keeps the arguments and the    *)
(* result.  The engine does not run in this specification.                 *)

engine_vars == <<pc, cycle, idx, results, positions, capital, position, data,
                 all_signals, gate, seen, log>>

\* arguments of calculate_position_size: prices, ATR values and capitals on
\* both sides of zero
SizingPrices   == {-100, 0, 30, 100, 900}
SizingAtrs     == {-2, 0, 2, 4}
SizingCapitals == {-1000, -100, 0, 100, 1000, 5000}

\* strategy.calculate_position_size(symbol, price, atr, available_capital)
CallPositionSize ==
    /\ call = NoCall
    /\ \E st \in {"SuperTrend", "MACD_RSI"}, price \in SizingPrices,
          atr \in SizingAtrs, cap \in SizingCapitals :
          call' = [fn |-> "calculate_position_size", st |-> st, price |-> price,
                   atr |-> atr, cap |-> cap,
                   out |-> calculate_position_size(st, price, atr, cap)]
    /\ UNCHANGED engine_vars

\* positions as should_exit reads them: 0 stands for a stop-loss or
\* take-profit that is not set (None or missing key)
ExitPositions ==
    {[entry_price |-> e, stop_loss_price |-> sl, take_profit_price |-> tp] :
        e \in {0, 100}, sl \in {0, 95}, tp \in {0, 110}}

\* the optional indicator fields should_exit looks for
ExitCols ==
    {"supertrend_direction", "supertrend", "atr", "rsi_14", "bb_upper", "chandelier_exit"}

\* the latest bar handed to should_exit: any subset of the optional fields
ExitBars ==
    {[BaseFrame EXCEPT !.enriched = TRUE, !.cols = cs, !.close = c, !.dir_last = dl,
                       !.supertrend = sp, !.rsi_14 = r, !.chandelier_exit = ce,
                       !.atr = 4] :
        cs \in SUBSET ExitCols, c \in {0, 90, 105, 106, 120}, dl \in {-1, 1},
        sp \in {95, 106}, r \in {50, 75}, ce \in {90, 130}}

\* strategy.should_exit(position, current_data)
CallShouldExit ==
    /\ call = NoCall
    /\ \E st \in {"SuperTrend", "MACD_RSI"}, pos \in ExitPositions, bar \in ExitBars :
          call' = [fn |-> "should_exit", st |-> st, pos |-> pos, bar |-> bar,
                   out |-> should_exit(st, pos, bar)]
    /\ UNCHANGED engine_vars

\* the primary frames handed to generate_signals, by their last two bars:
\* indicator columns may be absent, the ATR may be zero
SignalFrames ==
    {[BaseFrame EXCEPT !.enriched = TRUE, !.symbol = "AAA", !.truth = t,
                       !.cols = IndicatorCols \ drop, !.close = 101,
                       !.supertrend = sp, !.dir_prev = dp, !.dir_last = dl,
                       !.vol_ok = v, !.atr = a, !.macd_line = m, !.macd_signal = 1,
                       !.bb_lower = 90, !.bb_upper = 110, !.rows = r] :
        t \in {"defined", "ambiguous"}, drop \in SUBSET {"atr", "supertrend", "rsi_14"},
        sp \in {95, 100, 105}, dp \in {-1, 0, 1}, dl \in {-1, 1}, v \in BOOLEAN,
        a \in {0, 2}, m \in {0, 2}, r \in {1, 10, 101}}

\* the daily frames: none, empty, close above and close below the EMA200
SignalDailies ==
    {None, [rows |-> 0, close |-> 0, ema200 |-> 0],
     [rows |-> 201, close |-> 100, ema200 |-> 90],
     [rows |-> 201, close |-> 80, ema200 |-> 90]}

\* strategy.generate_signals(data)
CallGenerateSignals ==
    /\ call = NoCall
    /\ \E st \in {"SuperTrend", "MACD_RSI"}, f \in SignalFrames, daily \in SignalDailies :
          call' = [fn |-> "generate_signals", st |-> st,
                   data |-> [daily |-> daily, m15 |-> f],
                   out |-> generate_signals(st, [daily |-> daily, m15 |-> f])]
    /\ UNCHANGED engine_vars

\* the frames handed to _calculate_confidence: supertrend value and RSI may be
\* absent; mono5 says that the last 5 closes are monotonically increasing
ConfidenceFrames ==
    {[BaseFrame EXCEPT !.enriched = TRUE, !.cols = IndicatorCols \ drop, !.close = 101,
                       !.supertrend = sp, !.vol_ok = v, !.rsi_14 = r, !.mono5 = m,
                       !.rows = n] :
        drop \in SUBSET {"supertrend", "rsi_14"}, sp \in {0, 95, 100, 105},
        v \in BOOLEAN, r \in {25, 30, 35, 40, 50, 60, 65, 70, 75}, m \in BOOLEAN,
        n \in {4, 10, 101}}

\* SuperTrendStrategy._calculate_confidence(latest, data)
CallConfidence ==
    /\ call = NoCall
    /\ \E f \in ConfidenceFrames :
          call' = [fn |-> "_calculate_confidence", st |-> "SuperTrend", bar |-> f,
                   out |-> st_calculate_confidence(f)]
    /\ UNCHANGED engine_vars

----------------------------------------------------------------------------
(* indicators/supertrend.py: calculate_atr and calculate_supertrend over a  *)
(* sequence of bars [high, low, close].  The bands, the line and the scaled *)
(* close are kept in units of 1/(2 * period) of a price unit, which makes   *)
(* the midpoint of a bar and the rolling mean exact integers.               *)

\* numpy.nan, the undefined value: every comparison with it is false
NaN == -1000000

Lt(a, b) == a # NaN /\ b # NaN /\ a < b
Le(a, b) == a # NaN /\ b # NaN /\ a <= b

\* Python's min(a, b) and max(a, b): a, unless b is strictly smaller / larger
PyMin(a, b) == IF Lt(b, a) THEN b ELSE a
PyMax(a, b) == IF Lt(a, b) THEN b ELSE a

Abs(x) == IF x >= 0 THEN x ELSE -x

\* the default multiplier of calculate_supertrend
supertrend_multiplier == 3

\* the true range of bar i: the largest of high - low, |high - previous close|
\* and |low - previous close|; the first bar has no previous close and the
\* row-wise maximum skips the two undefined entries
true_range(bars, i) ==
    LET b  == bars[i]
        hl == b.high - b.low IN
    IF i = 1 THEN hl
    ELSE LET hc == Abs(b.high - bars[i - 1].close)
             lc == Abs(b.low - bars[i - 1].close)
             m  == IF hl >= hc THEN hl ELSE hc IN
         IF m >= lc THEN m ELSE lc

RECURSIVE SumTrueRange(_, _, _)
SumTrueRange(bars, first, last) ==
    IF first > last THEN 0
    ELSE true_range(bars, last) + SumTrueRange(bars, first, last - 1)

\* calculate_atr: true_range.rolling(period).mean(), here times period;
\* undefined on the first period - 1 bars
calculate_atr(bars, period, i) ==
    IF i < period THEN NaN ELSE SumTrueRange(bars, i - period + 1, i)

\* df[atr_column], times period: the atr column of the frame when it has one
\* (supertrend.py:41), else the column calculate_atr adds
atr_column(bars, period, i) ==
    IF "atr" \in DOMAIN bars[i] THEN period * bars[i].atr
    ELSE calculate_atr(bars, period, i)

\* hl2 + multiplier * atr and hl2 - multiplier * atr, times 2 * period
basic_upperband(bars, period, i) ==
    LET a == atr_column(bars, period, i) IN
    IF a = NaN THEN NaN
    ELSE period * (bars[i].high + bars[i].low) + 2 * supertrend_multiplier * a

basic_lowerband(bars, period, i) ==
    LET a == atr_column(bars, period, i) IN
    IF a = NaN THEN NaN
    ELSE period * (bars[i].high + bars[i].low) - 2 * supertrend_multiplier * a

\* the close of bar i in the units of the bands
scaled_close(bars, period, i) == 2 * period * bars[i].close

\* a direction that flips as soon as the close touches the previous band
direction_step_on_touch(close, prev_upper, prev_lower, prev_direction) ==
    IF Le(prev_upper, close) THEN 1
    ELSE IF Le(close, prev_lower) THEN -1
    ELSE prev_direction

\* the direction of a bar (supertrend.py:74-79) from its close and the
\* previous bar's adjusted bands and direction
direction_step(close, prev_upper, prev_lower, prev_direction) ==
    IF Lt(prev_upper, close) THEN 1
    ELSE IF Lt(close, prev_lower) THEN -1
    ELSE prev_direction

\* the rows of the frame once the loop of calculate_supertrend has handled the
\* first n bars: the first bar keeps the initial supertrend 0.0 and direction 1
RECURSIVE supertrend_rows(_, _, _)
supertrend_rows(bars, period, n) ==
    IF n = 0 THEN <<>>
    ELSE IF n = 1
    THEN << [upperband |-> basic_upperband(bars, period, 1),
             lowerband |-> basic_lowerband(bars, period, 1),
             direction |-> 1, supertrend |-> 0] >>
    ELSE LET rows == supertrend_rows(bars, period, n - 1)
             prev == rows[n - 1]
             prc  == scaled_close(bars, period, n - 1)
             up   == IF Le(prc, prev.upperband)
                     THEN PyMin(basic_upperband(bars, period, n), prev.upperband)
                     ELSE basic_upperband(bars, period, n)
             lo   == IF Le(prev.lowerband, prc)
                     THEN PyMax(basic_lowerband(bars, period, n), prev.lowerband)
                     ELSE basic_lowerband(bars, period, n)
             dir  == direction_step(scaled_close(bars, period, n),
                                    prev.upperband, prev.lowerband, prev.direction)
         IN  Append(rows, [upperband |-> up, lowerband |-> lo, direction |-> dir,
                           supertrend |-> IF dir = 1 THEN lo ELSE up])

\* calculate_supertrend(df, period) without an atr column in df
calculate_supertrend(bars, period) == supertrend_rows(bars, period, Len(bars))

\* a recurrence that tightens a band only when the previous close is strictly
\* inside it
RECURSIVE st_supertrend_rows_strict(_, _, _)
st_supertrend_rows_strict(bars, period, n) ==
    IF n = 0 THEN <<>>
    ELSE IF n = 1
    THEN << [upperband |-> basic_upperband(bars, period, 1),
             lowerband |-> basic_lowerband(bars, period, 1),
             direction |-> 1, supertrend |-> 0] >>
    ELSE LET rows == st_supertrend_rows_strict(bars, period, n - 1)
             prev == rows[n - 1]
             prc  == scaled_close(bars, period, n - 1)
             cur  == scaled_close(bars, period, n)
             up   == IF Lt(prc, prev.upperband)
                     THEN PyMin(basic_upperband(bars, period, n), prev.upperband)
                     ELSE basic_upperband(bars, period, n)
             lo   == IF Lt(prev.lowerband, prc)
                     THEN PyMax(basic_lowerband(bars, period, n), prev.lowerband)
                     ELSE basic_lowerband(bars, period, n)
             dir  == IF Lt(prev.upperband, cur) THEN 1
                     ELSE IF Lt(cur, prev.lowerband) THEN -1
                     ELSE prev.direction
         IN  Append(rows, [upperband |-> up, lowerband |-> lo, direction |-> dir,
                           supertrend |-> IF dir = 1 THEN lo ELSE up])

\* SuperTrendStrategy._calculate_supertrend (supertrend_strategy.py:308-360):
\* the rows of the frame once its loop has handled the first n bars.  The
\* columns upperband and lowerband start as hl2 +/- multiplier * atr, the
\* line as 0.0 and the direction as 1; the loop starts at the second bar.
RECURSIVE st_supertrend_rows(_, _, _)
st_supertrend_rows(bars, period, n) ==
    IF n = 0 THEN <<>>
    ELSE IF n = 1
    THEN << [upperband |-> basic_upperband(bars, period, 1),
             lowerband |-> basic_lowerband(bars, period, 1),
             direction |-> 1, supertrend |-> 0] >>
    ELSE LET rows == st_supertrend_rows(bars, period, n - 1)
             prev == rows[n - 1]
             prc  == scaled_close(bars, period, n - 1)
             cur  == scaled_close(bars, period, n)
             up   == IF Le(prc, prev.upperband)
                     THEN PyMin(basic_upperband(bars, period, n), prev.upperband)
                     ELSE basic_upperband(bars, period, n)
             lo   == IF Le(prev.lowerband, prc)
                     THEN PyMax(basic_lowerband(bars, period, n), prev.lowerband)
                     ELSE basic_lowerband(bars, period, n)
             dir  == IF Lt(prev.upperband, cur) THEN 1
                     ELSE IF Lt(cur, prev.lowerband) THEN -1
                     ELSE prev.direction
         IN  Append(rows, [upperband |-> up, lowerband |-> lo, direction |-> dir,
                           supertrend |-> IF dir = 1 THEN lo ELSE up])

\* SuperTrendStrategy._calculate_supertrend(df) with self.period = period
st_calculate_supertrend(bars, period) == st_supertrend_rows(bars, period, Len(bars))

\* the longest bar sequence and the longest ATR period of a call
MaxBars == 4
MaxPeriod == 3

\* the bars of a call: low <= close <= high
BarPrices == {90, 100, 104}
BarSet ==
    {b \in [high : BarPrices, low : BarPrices, close : BarPrices] :
        b.low <= b.close /\ b.close <= b.high}
BarSeqs == UNION {[1..n -> BarSet] : n \in 0..MaxBars}

\* the outcome of a call on a frame: an exception, or the rows returned
Raised == [raised |-> TRUE, rows |-> <<>>]
Returned(rows) == [raised |-> FALSE, rows |-> rows]

\* calculate_supertrend(df, period) on a frame with the columns cols: a
\* subscript of an absent column raises KeyError.  Without an atr column
\* calculate_atr reads high, low and close; with one, the bands read high and
\* low, and only the loop, from the second row on, reads close.
supertrend_frame(cols, bars, period) ==
    IF "atr" \notin cols
    THEN IF {"high", "low", "close"} \subseteq cols
         THEN Returned(calculate_supertrend(bars, period))
         ELSE Raised
    ELSE IF ~({"high", "low"} \subseteq cols) THEN Raised
    ELSE IF Len(bars) >= 2 /\ "close" \notin cols THEN Raised
    ELSE Returned(calculate_supertrend(bars, period))

\* the frames of a call: any subset of the columns high, low, close and atr,
\* up to MaxFrameRows rows
MaxFrameRows == 3
FrameCols == {"high", "low", "close", "atr"}
FrameAtrs == {0, 2}
FrameRowSet(cols) ==
    {[c \in cols |-> IF c = "atr" THEN a ELSE b[c]] : b \in BarSet, a \in FrameAtrs}
FrameSeqs(cols) == UNION {[1..n -> FrameRowSet(cols)] : n \in 0..MaxFrameRows}

\* calculate_supertrend(df, period) on a frame that may lack columns; the
\* period is used by calculate_atr only, so that one period is enough for the
\* frames that bring their own atr column
CallSuperTrendFrame ==
    /\ call = NoCall
    /\ \E cols \in SUBSET FrameCols :
          \E bars \in FrameSeqs(cols),
             period \in (IF "atr" \in cols THEN {1} ELSE 1..MaxPeriod) :
              call' = [fn |-> "calculate_supertrend_frame", cols |-> cols,
                       bars |-> bars, period |-> period,
                       out |-> supertrend_frame(cols, bars, period)]
    /\ UNCHANGED engine_vars

\* calculate_supertrend(df, period) of the indicator module, and
\* SuperTrendStrategy._calculate_supertrend on the same bars and period
CallSuperTrend ==
    /\ call = NoCall
    /\ \E bars \in BarSeqs, period \in 1..MaxPeriod :
          call' = [fn |-> "calculate_supertrend", bars |-> bars, period |-> period,
                   out |-> calculate_supertrend(bars, period),
                   st_out |-> st_calculate_supertrend(bars, period)]
    /\ UNCHANGED engine_vars

\* the frame SuperTrendStrategy works on after its _calculate_supertrend
\* (supertrend_strategy.py:71-76) has run over the bars received so far: the
\* latest and the previous row, prices in the units of the bands; the volume
\* of the latest bar is above the average and the frame has no RSI column
PrefixFrame(bars, period) ==
    LET n    == Len(bars)
        rows == calculate_supertrend(bars, period) IN
    [BaseFrame EXCEPT !.enriched = TRUE,
                      !.cols = {"atr", "supertrend", "supertrend_direction"},
                      !.rows = n,
                      !.close = scaled_close(bars, period, n),
                      !.atr = LET a == calculate_atr(bars, period, n) IN
                              IF a = NaN THEN NaN ELSE 2 * a,
                      !.supertrend = rows[n].supertrend,
                      !.dir_last = rows[n].direction,
                      !.dir_prev = IF n > 1 THEN rows[n - 1].direction ELSE 1,
                      !.vol_ok = TRUE]

\* the first price of a fed series and the rises from one price to the next
FirstClose == 100
Rises == {1, 2}

\* one more bar (high = low = close) of a strictly increasing price series arrives and
\* SuperTrendStrategy.generate_signals is called on the series so far; buys
\* keeps the number of signals of every call
FeedBar ==
    /\ call = NoCall \/ (call.fn = "feed" /\ Len(call.bars) < MaxBars)
    /\ \E p \in 1..MaxPeriod, rise \in Rises :
          LET fresh  == call = NoCall
              old    == IF fresh THEN <<>> ELSE call.bars
              period == IF fresh THEN p ELSE call.period
              c      == IF fresh THEN FirstClose ELSE old[Len(old)].close + rise
              bars   == Append(old, [high |-> c, low |-> c, close |-> c])
              r      == st_generate_signals([daily |-> None,
                                             m15 |-> PrefixFrame(bars, period)])
          IN  call' = [fn |-> "feed", bars |-> bars, period |-> period,
                       buys |-> Append(IF fresh THEN <<>> ELSE call.buys,
                                       Len(r.signals))]
    /\ UNCHANGED engine_vars

----------------------------------------------------------------------------
(* EnhancedSuperTrendStrategy: one instance with its last_signal_date over  *)
(* a series of generate_signals calls.  Dates are counted in half days.     *)

\* EnhancedSuperTrendStrategy.min_signal_gap, in days
min_signal_gap == 5

\* self.last_signal_date = None: no signal yet (the dates of the calls are >= 0)
NoDate == -1

\* Timedelta.days of a difference of dates: the whole days, rounded down
Days(delta) == delta \div 2

\* latest.name if isinstance(latest.name, pd.Timestamp) else pd.Timestamp.now()
SignalDate(latest, now) == IF latest.stamped THEN latest.name ELSE now

\* the filters of _validate_entry that come before the gap
other_filters(filters) ==
    filters.base /\ filters.adx /\ filters.volume_trend /\ filters.momentum

\* a gap test that lets every signal pass
check_signal_gap_open(last_signal_date, latest, now) == TRUE

\* EnhancedSuperTrendStrategy._check_signal_gap(latest)
check_signal_gap(last_signal_date, latest, now) ==
    IF last_signal_date = NoDate THEN TRUE
    ELSE Days(SignalDate(latest, now) - last_signal_date) >= min_signal_gap

\* EnhancedSuperTrendStrategy._validate_entry: the validation of the base
\* class, then the ADX, volume trend and momentum filters, then the gap
enhanced_validate_entry(filters, last_signal_date, latest, now) ==
    /\ other_filters(filters)
    /\ check_signal_gap(last_signal_date, latest, now)

\* EnhancedSuperTrendStrategy.volume_trend_days
volume_trend_days == 3

RECURSIVE SumOf(_, _, _)
SumOf(xs, first, last) ==
    IF first > last THEN 0 ELSE xs[last] + SumOf(xs, first, last - 1)

\* Series.is_monotonic_increasing: no value is smaller than the one before
is_monotonic_increasing(xs) == \A i \in 2..Len(xs) : xs[i - 1] <= xs[i]

\* EnhancedSuperTrendStrategy._check_volume_trend(data) on a frame with or
\* without a volume column; the halves of the last volume_trend_days volumes
\* are the first len // 2 of them and the rest, and their means are compared
\* by cross-multiplication
check_volume_trend(has_volume, volumes) ==
    IF ~has_volume \/ Len(volumes) < volume_trend_days THEN TRUE
    ELSE LET recent == SubSeq(volumes, Len(volumes) - volume_trend_days + 1, Len(volumes))
             n      == Len(recent)
             h      == n \div 2 IN
         IF is_monotonic_increasing(recent) THEN TRUE
         ELSE h > 0 /\ SumOf(recent, h + 1, n) * h > SumOf(recent, 1, h) * (n - h)

\* the volume columns of a call
MaxVolumes == 4
VolumeLevels == {1, 2, 3}
VolumeSeqs == UNION {[1..n -> VolumeLevels] : n \in 0..MaxVolumes}

\* EnhancedSuperTrendStrategy._check_volume_trend(data)
CallVolumeTrend ==
    /\ call = NoCall
    /\ \E has_volume \in BOOLEAN, volumes \in VolumeSeqs :
          call' = [fn |-> "_check_volume_trend", has_volume |-> has_volume,
                   volumes |-> volumes,
                   out |-> check_volume_trend(has_volume, volumes)]
    /\ UNCHANGED engine_vars

\* the calls of a series, the steps by which its dates advance, and the
\* outcomes of the filters that do not depend on the instance
MaxCalls == 4
Advances == {0, 1, 9, 10}
FilterOutcomes == [base : BOOLEAN, adx : BOOLEAN, volume_trend : BOOLEAN,
                   momentum : BOOLEAN]

\* one more generate_signals call on the instance (supertrend_strategy.py:45-92
\* with the overridden _validate_entry and _create_buy_signal): the direction
\* of the latest bar turned up or not, the bar carries a timestamp or the
\* clock is read, and no date is earlier than the date of the call before.
\* log keeps of every call its date, whether the direction turned up and the
\* filters before the gap passed, and whether a BUY was emitted.
EnhancedGenerateSignals ==
    /\ call = NoCall \/ (call.fn = "enhanced" /\ Len(call.log) < MaxCalls)
    /\ \E adv \in Advances, turned \in BOOLEAN, stamped \in BOOLEAN,
          filters \in FilterOutcomes :
          LET fresh  == call = NoCall
              last   == IF fresh THEN NoDate ELSE call.last_signal_date
              t      == IF fresh THEN adv ELSE call.log[Len(call.log)].date + adv
              latest == [stamped |-> stamped, name |-> t]
              buy    == turned /\ enhanced_validate_entry(filters, last, latest, t)
          IN  call' = [fn |-> "enhanced",
                       last_signal_date |-> IF buy THEN SignalDate(latest, t) ELSE last,
                       log |-> Append(IF fresh THEN <<>> ELSE call.log,
                                      [date |-> t,
                                       pass |-> turned /\ other_filters(filters),
                                       buy |-> buy])]
    /\ UNCHANGED engine_vars

----------------------------------------------------------------------------
(* MacdRsiStrategy: the entry conditions and should_exit on one bar *)

\* the latest bars handed to MacdRsiStrategy
EntryBars ==
    {[BaseFrame EXCEPT !.enriched = TRUE, !.cols = IndicatorCols \ drop, !.close = 100,
                       !.macd_line = m, !.macd_signal = 1, !.rsi_14 = r,
                       !.bb_lower = 90, !.bb_upper = bu, !.dir_last = dl, !.atr = a,
                       !.chandelier_exit = ch] :
        drop \in SUBSET {"rsi_14", "bb_upper", "supertrend_direction"},
        m \in {0, 2}, r \in {35, 50, 70, 75}, bu \in {95, 110}, dl \in {-1, 1},
        a \in {0, 2}, ch \in {90, 130}}

\* the position the engine records for a signal (engine.py:337-346), as far
\* as should_exit reads it
PositionOf(sig) ==
    [entry_price |-> sig.price, stop_loss_price |-> sig.stop_loss,
     take_profit_price |-> sig.take_profit]

\* MacdRsiStrategy._check_entry_conditions on a bar, and should_exit on the
\* same bar for the position opened from the signal of that bar
CallEntryThenExit ==
    /\ call = NoCall
    /\ \E f \in EntryBars, daily \in SignalDailies :
          LET sig == macd_create_buy_signal(f) IN
          call' = [fn |-> "entry_then_exit", bar |-> f, daily |-> daily,
                   entry |-> macd_check_entry_conditions(f, daily),
                   pos |-> PositionOf(sig),
                   out |-> macd_should_exit(PositionOf(sig), f)]
    /\ UNCHANGED engine_vars

StrategyNext ==
    \/ CallPositionSize
    \/ CallShouldExit
    \/ CallGenerateSignals
    \/ CallConfidence
    \/ CallSuperTrend
    \/ CallSuperTrendFrame
    \/ EnhancedGenerateSignals
    \/ CallVolumeTrend
    \/ CallEntryThenExit
    \/ FeedBar

StrategySpec == Init /\ [][StrategyNext]_vars

Sized == call.fn = "calculate_position_size"

\* C11 For every price, ATR and available capital, calculate_position_size
\*     returns no negative quantity, and the quantity times the price does
\*     not exceed max_position_size times the available capital.
C11_SizeNonNegativeAndCapped ==
    Sized => /\ call.out >= 0
             /\ call.out * call.price * 100 <= max_position_size * call.cap

----------------------------------------------------------------------------
\* the stop-loss ATR multiplier of a strategy, in tenths
StopLossAtrMult(st) ==
    IF st = "SuperTrend" THEN st_stop_loss_atr_mult ELSE macd_stop_loss_atr_mult

\* q is n / d rounded down, for d > 0
IsFloor(q, n, d) == q * d <= n /\ n < (q + 1) * d

\* q is n / d rounded toward zero, for d > 0
IsTrunc(q, n, d) ==
    IF n >= 0 THEN IsFloor(q, n, d) ELSE (q - 1) * d < n /\ n <= q * d

\* the quantity the risk allows, n / d: capital times risk_per_trade over ATR
\* times the multiplier of the strategy (both sides in thousandths)
RiskNum(c) == c.cap * risk_per_trade * 10
RiskDen(c) == 100 * c.atr * StopLossAtrMult(c.st)
\* the quantity the position limit allows, n / d
LimitNum(c) == c.cap * max_position_size
LimitDen(c) == 100 * c.price

\* C12 as stated: the quantity is the smaller of the two quotients rounded
\*     down, and 0 when atr <= 0 or price <= 0.
C12_SizeIsMinOfFloors ==
    Sized =>
        IF call.atr <= 0 \/ call.price <= 0 THEN call.out = 0
        ELSE \E q1, q2 \in -50..250 :
                /\ IsFloor(q1, RiskNum(call), RiskDen(call))
                /\ IsFloor(q2, LimitNum(call), LimitDen(call))
                /\ call.out = Min(q1, q2)

\* C12 amended: calculate_position_size of SuperTrendStrategy and of
\*     MacdRsiStrategy returns min(int(capital * risk_per_trade / (atr *
\*     stop_loss_atr_mult)), int(capital * max_position_size / price)), where
\*     int rounds toward zero (down for a capital >= 0, up for a negative
\*     one), and returns 0 whenever atr <= 0 or price <= 0.
C12_SizeIsMinOfTruncations ==
    Sized =>
        IF call.atr <= 0 \/ call.price <= 0 THEN call.out = 0
        ELSE \E q1, q2 \in -50..250 :
                /\ IsTrunc(q1, RiskNum(call), RiskDen(call))
                /\ IsTrunc(q2, LimitNum(call), LimitDen(call))
                /\ call.out = Min(q1, q2)

\* MacdRsiStrategy sized a position that the position limit cut to one share
C12_Witness ==
    /\ Sized
    /\ call.st = "MACD_RSI"
    /\ call.price = 900 /\ call.atr = 2 /\ call.cap = 5000
    /\ call.out = 1

----------------------------------------------------------------------------
ExitAsked == call.fn = "should_exit"

\* the reasons a strategy gives for an exit
ExitReasons(st) ==
    IF st = "SuperTrend"
    THEN {"SuperTrend turned bearish", "Price below SuperTrend line", "Stop loss hit",
          "Profit target reached", "Trailing stop hit"}
    ELSE {"Momentum weakening (RSI < 70, price < BB upper)", "SuperTrend turned bearish",
          "Stop loss hit", "Profit target reached", "Chandelier Exit triggered"}

\* C13 should_exit of every strategy is total: for every position and bar,
\*     bars without optional indicator fields and positions without
\*     stop-loss or take-profit included, it raises nothing and returns one
\*     pair of a boolean and a reason (a reason of the strategy when the
\*     boolean is true, the empty reason otherwise).
C13_ShouldExitIsTotal ==
    ExitAsked =>
        /\ ~call.out.raised
        /\ call.out.exit \in BOOLEAN
        /\ call.out.exit => call.out.reason \in ExitReasons(call.st)
        /\ ~call.out.exit => call.out.reason = ""

\* SuperTrendStrategy answered on a bar without any indicator field for a
\* position without stop-loss and take-profit
C13_Witness ==
    /\ ExitAsked
    /\ call.st = "SuperTrend"
    /\ call.bar.cols = {}
    /\ call.pos.entry_price > 0 /\ call.bar.close > 0
    /\ call.pos.stop_loss_price = 0 /\ call.pos.take_profit_price = 0
    /\ call.out = Ret(FALSE, "")

----------------------------------------------------------------------------
SignalsAsked == call.fn = "generate_signals"

\* the signals the call returned
Emitted == {call.out.signals[i] : i \in 1..Len(call.out.signals)}

\* C14 Every BUY signal of generate_signals has a price > 0 and stop_loss <
\*     price < take_profit, for every bar, a bar with zero ATR included.
C14_StopBelowPriceBelowTarget ==
    SignalsAsked =>
        \A sig \in Emitted :
            /\ sig.price > 0
            /\ sig.stop_loss < sig.price
            /\ sig.price < sig.take_profit

----------------------------------------------------------------------------
\* SuperTrendStrategy was asked for signals
TrendAsked == SignalsAsked /\ call.st = "SuperTrend"

\* the direction turned from <= 0 to > 0 on the last two bars
FlippedUp(f) == f.rows > 1 /\ f.dir_prev <= 0 /\ f.dir_last > 0

\* the daily close is above the 200-period EMA
DailyAbove(daily) == daily # None /\ daily.rows >= 200 /\ daily.close > daily.ema200

\* C15 as stated: a BUY only on an upward flip with the close above the
\*     supertrend line, the volume at least the threshold times the 20-bar
\*     average and the daily close above the EMA200; at most one signal.
C15_BuyOnlyBehindAllGates ==
    TrendAsked =>
        /\ Len(call.out.signals) <= 1
        /\ call.out.signals # <<>> =>
              /\ FlippedUp(call.data.m15)
              /\ HasCol(call.data.m15, "supertrend")
              /\ call.data.m15.close > call.data.m15.supertrend
              /\ call.data.m15.vol_ok
              /\ DailyAbove(call.data.daily)

\* C15 amended: SuperTrendStrategy.generate_signals emits a BUY only when the
\*     previous bar's direction is <= 0 and the latest bar's direction is > 0;
\*     when the bar has a supertrend value the close is above it; when the
\*     primary frame has at least 20 bars the latest volume is at least the
\*     threshold times the 20-bar average; when a non-empty daily frame is
\*     given it has at least 200 bars and its close is above the EMA200.
\*     Each gate is skipped when its data is absent.  At most one signal is
\*     emitted per call.
C15_BuyOnlyBehindPresentGates ==
    TrendAsked =>
        /\ Len(call.out.signals) <= 1
        /\ call.out.signals # <<>> =>
              /\ FlippedUp(call.data.m15)
              /\ HasCol(call.data.m15, "supertrend")
                    => call.data.m15.close > call.data.m15.supertrend
              /\ call.data.m15.rows >= 20 => call.data.m15.vol_ok
              /\ (call.data.daily # None /\ call.data.daily.rows > 0)
                    => DailyAbove(call.data.daily)

\* a BUY behind all three gates
C15_Witness ==
    /\ TrendAsked
    /\ Len(call.out.signals) = 1
    /\ HasCol(call.data.m15, "supertrend")
    /\ call.data.m15.rows >= 20
    /\ call.data.m15.vol_ok
    /\ DailyAbove(call.data.daily)

----------------------------------------------------------------------------
\* SuperTrendStrategy.should_exit was asked for a position with an entry
\* price and a bar with a close, both positive
TrendExitAsked ==
    /\ ExitAsked
    /\ call.st = "SuperTrend"
    /\ call.pos.entry_price > 0
    /\ call.bar.close > 0

\* the exit conditions of SuperTrendStrategy in their order, each with its reason
ExitConditions(pos, f) ==
    << [holds  |-> HasCol(f, "supertrend_direction") /\ f.dir_last <= 0,
        reason |-> "SuperTrend turned bearish"],
       [holds  |-> HasCol(f, "supertrend") /\ f.close < f.supertrend,
        reason |-> "Price below SuperTrend line"],
       [holds  |-> pos.stop_loss_price # 0 /\ f.close <= pos.stop_loss_price,
        reason |-> "Stop loss hit"],
       [holds  |-> pos.take_profit_price # 0 /\ f.close >= pos.take_profit_price,
        reason |-> "Profit target reached"],
       [holds  |-> /\ (f.close - pos.entry_price) * 100 >= 5 * pos.entry_price
                   /\ st_calculate_trailing_stop(pos, f) # 0
                   /\ f.close <= st_calculate_trailing_stop(pos, f),
        reason |-> "Trailing stop hit"] >>

\* C17 SuperTrendStrategy.should_exit, for a position with an entry price > 0
\*     and a bar with a close > 0, returns exit = true with the reason of the
\*     first condition that holds in the order direction <= 0, close <
\*     supertrend line, close <= stop-loss, close >= take-profit, trailing
\*     stop; the trailing stop counts only when the unrealized gain is at
\*     least 5%; when no condition holds the result is (false, "").
C17_FirstExitConditionWins ==
    TrendExitAsked =>
        LET cs    == ExitConditions(call.pos, call.bar)
            holds == {k \in 1..Len(cs) : cs[k].holds} IN
        /\ ~call.out.raised
        /\ holds = {} => (~call.out.exit /\ call.out.reason = "")
        /\ \A k \in holds :
              (\A j \in holds : k <= j) =>
                  (call.out.exit /\ call.out.reason = cs[k].reason)

\* the trailing stop closed a position that gained 5%: no earlier condition held
C17_Witness ==
    /\ TrendExitAsked
    /\ call.out.reason = "Trailing stop hit"
    /\ call.pos.stop_loss_price # 0
    /\ call.pos.take_profit_price # 0

----------------------------------------------------------------------------
ConfidenceAsked == call.fn = "_calculate_confidence"

\* the boosts of the confidence, in hundredths
DistanceBoost(f) ==
    IF HasCol(f, "supertrend") /\ f.supertrend > 0
       /\ 100 * (f.close - f.supertrend) > f.supertrend
    THEN 10 ELSE 0
VolumeBoost(f) == IF check_volume_confirmation(f) THEN 15 ELSE 0
RsiBoost(f) ==
    IF ~HasCol(f, "rsi_14") THEN 0
    ELSE IF f.rsi_14 \in 40..60 THEN 15
    ELSE IF f.rsi_14 \in 30..70 THEN 10
    ELSE 0
TrendBoost(f) == IF f.rows >= 5 /\ f.mono5 THEN 10 ELSE 0

----------------------------------------------------------------------------
SuperTrendAsked == call.fn = "calculate_supertrend"

\* the columns of the frame calculate_supertrend returned, by bar
UpperBand(i) == call.out[i].upperband
LowerBand(i) == call.out[i].lowerband
Direction(i) == call.out[i].direction
CloseOf(i)   == scaled_close(call.bars, call.period, i)

\* C20 In the output of calculate_supertrend the direction of every bar is +1
\*     or -1, the direction of the first bar is +1, and the direction of a
\*     bar differs from that of the bar before only when its close is above
\*     the previous bar's final upper band (then it is +1) or below the
\*     previous bar's final lower band (then it is -1).
C20_DirectionFlipsOnlyOnCrossing ==
    SuperTrendAsked =>
        /\ Len(call.out) = Len(call.bars)
        /\ \A i \in 1..Len(call.out) : Direction(i) \in {1, -1}
        /\ Len(call.out) >= 1 => Direction(1) = 1
        /\ \A i \in 2..Len(call.out) :
              Direction(i) # Direction(i - 1) =>
                  \/ Direction(i) = 1 /\ UpperBand(i - 1) # NaN /\ CloseOf(i) > UpperBand(i - 1)
                  \/ Direction(i) = -1 /\ LowerBand(i - 1) # NaN /\ CloseOf(i) < LowerBand(i - 1)

\* a frame whose direction went down and came back up
C20_Witness ==
    /\ SuperTrendAsked
    /\ \E i, j \in 2..Len(call.out) :
          /\ i < j
          /\ Direction(i - 1) = 1 /\ Direction(i) = -1
          /\ Direction(j - 1) = -1 /\ Direction(j) = 1

----------------------------------------------------------------------------
BasicUpper(i) == basic_upperband(call.bars, call.period, i)
BasicLower(i) == basic_lowerband(call.bars, call.period, i)
Line(i)       == call.out[i].supertrend

\* the band and direction recurrences of the forward scan at bar i >= 2
ScanStepAt(i) ==
    /\ UpperBand(i) = IF Le(CloseOf(i - 1), UpperBand(i - 1))
                      THEN Min(BasicUpper(i), UpperBand(i - 1))
                      ELSE BasicUpper(i)
    /\ LowerBand(i) = IF Le(LowerBand(i - 1), CloseOf(i - 1))
                      THEN -Min(-BasicLower(i), -LowerBand(i - 1))
                      ELSE BasicLower(i)
    /\ Direction(i) = IF Lt(UpperBand(i - 1), CloseOf(i)) THEN 1
                      ELSE IF Lt(CloseOf(i), LowerBand(i - 1)) THEN -1
                      ELSE Direction(i - 1)

\* the line of bar i is the lower band when the direction is +1, else the upper band
LineAt(i) == Line(i) = IF Direction(i) = 1 THEN LowerBand(i) ELSE UpperBand(i)

\* C19 For every bar sequence calculate_supertrend equals the single forward
\*     scan: from the second bar on the upper band, the lower band and the
\*     direction follow the recurrences, and on every bar the line is the
\*     lower band when the direction is +1 and the upper band otherwise.
C19_ScanMatchesSpecification ==
    SuperTrendAsked =>
        /\ \A i \in 2..Len(call.out) : ScanStepAt(i)
        /\ \A i \in 1..Len(call.out) : LineAt(i)

\* what calculate_supertrend does keep: the recurrences and the line from the
\* second bar on, and the line 0.0 on the first bar
C19_ScanFromSecondBar ==
    SuperTrendAsked =>
        /\ \A i \in 2..Len(call.out) : ScanStepAt(i) /\ LineAt(i)
        /\ Len(call.out) >= 1 => Line(1) = 0

----------------------------------------------------------------------------
\* a whole series was fed, bar by bar
SeriesFed == call.fn = "feed" /\ Len(call.bars) = MaxBars

\* the calls that returned a BUY candidate
BuyCalls == {i \in 1..Len(call.buys) : call.buys[i] > 0}

\* C16 Feeding SuperTrendStrategy the successive prefixes of a strictly
\*     increasing price series with above-average volume yields exactly one
\*     BUY candidate: one call returns one signal and no other call returns any.
C16_RisingSeriesBuysOnce ==
    SeriesFed =>
        /\ Cardinality(BuyCalls) = 1
        /\ \A i \in BuyCalls : call.buys[i] = 1

\* what the code does on such a series: the direction starts at +1 and never
\* leaves it, so no call returns a BUY candidate
C16_RisingSeriesNeverBuys ==
    call.fn = "feed" => BuyCalls = {}

----------------------------------------------------------------------------
\* the ATR of bar i is still undefined: fewer than period bars of history
WarmUp(i) == i < call.period

\* C21 On every bar without enough history (the first period - 1 bars, where
\*     the ATR is undefined) the atr and the supertrend of the enriched bar
\*     are undefined, never zero.
C21_WarmUpBarsUndefined ==
    SuperTrendAsked =>
        \A i \in 1..Len(call.out) :
            WarmUp(i) =>
                /\ calculate_atr(call.bars, call.period, i) = NaN
                /\ Line(i) = NaN

\* what calculate_supertrend keeps on those bars: the ATR is undefined, the
\* line is undefined from the second bar on and 0.0 on the first
C21_WarmUpAfterFirstBar ==
    SuperTrendAsked =>
        \A i \in 1..Len(call.out) :
            WarmUp(i) =>
                /\ calculate_atr(call.bars, call.period, i) = NaN
                /\ Line(i) = IF i = 1 THEN 0 ELSE NaN

----------------------------------------------------------------------------
FrameAsked == call.fn = "calculate_supertrend_frame"

\* a required column of the frame is absent
ColumnAbsent == ~({"high", "low", "close"} \subseteq call.cols)

\* C22 calculate_supertrend fails with an error when one of the columns high,
\*     low and close is absent, also on an empty frame; on a frame with all of
\*     them and fewer than period rows it does not fail and returns one row
\*     per bar with the indicator values undefined.
C22_FailsOnlyOnMissingColumn ==
    FrameAsked =>
        /\ ColumnAbsent => call.out.raised
        /\ (~ColumnAbsent /\ "atr" \notin call.cols /\ Len(call.bars) < call.period) =>
              /\ ~call.out.raised
              /\ Len(call.out.rows) = Len(call.bars)
              /\ \A i \in 1..Len(call.out.rows) :
                    /\ call.out.rows[i].supertrend = NaN
                    /\ call.out.rows[i].upperband = NaN
                    /\ call.out.rows[i].lowerband = NaN

\* what calculate_supertrend does: it fails exactly when it reads an absent
\* column, which for close and a frame with its own atr column takes two rows;
\* with too few rows the bands are undefined and the line is undefined from
\* the second row on
C22_FailsWhenColumnIsRead ==
    FrameAsked =>
        /\ call.out.raised <=>
              \/ "high" \notin call.cols
              \/ "low" \notin call.cols
              \/ "close" \notin call.cols /\ ("atr" \notin call.cols \/ Len(call.bars) >= 2)
        /\ (~ColumnAbsent /\ "atr" \notin call.cols /\ Len(call.bars) < call.period) =>
              /\ Len(call.out.rows) = Len(call.bars)
              /\ \A i \in 1..Len(call.out.rows) :
                    /\ call.out.rows[i].supertrend = IF i = 1 THEN 0 ELSE NaN
                    /\ call.out.rows[i].upperband = NaN
                    /\ call.out.rows[i].lowerband = NaN

----------------------------------------------------------------------------
EnhancedAsked == call.fn = "enhanced"

\* the calls of the series that emitted a BUY
EnhancedBuys == {k \in 1..Len(call.log) : call.log[k].buy}

\* every filter but the gap let the call through
OtherFiltersPass(k) == call.log[k].pass

\* C23 Over any series of generate_signals calls on one
\*     EnhancedSuperTrendStrategy with non-decreasing dates, no BUY is emitted
\*     fewer than min_signal_gap days after the previous BUY of the instance,
\*     and the first BUY is never blocked by the gap.
C23_BuysKeepTheGap ==
    EnhancedAsked =>
        /\ \A j, k \in EnhancedBuys :
              j < k => call.log[k].date - call.log[j].date >= 2 * min_signal_gap
        /\ \A k \in 1..Len(call.log) :
              (OtherFiltersPass(k) /\ \A j \in EnhancedBuys : j >= k) => call.log[k].buy

\* a BUY, a call blocked by the gap four and a half days later, and a second
\* BUY once five days have passed
C23_Witness ==
    /\ EnhancedAsked
    /\ \E i, j, k \in 1..Len(call.log) :
          /\ i < j /\ j < k
          /\ call.log[i].buy
          /\ OtherFiltersPass(j) /\ ~call.log[j].buy
          /\ call.log[j].date - call.log[i].date = 2 * min_signal_gap - 1
          /\ call.log[k].buy

----------------------------------------------------------------------------
\* _check_volume_trend was asked about a frame with at least N volumes
VolumeTrendAsked ==
    /\ call.fn = "_check_volume_trend"
    /\ call.has_volume
    /\ Len(call.volumes) >= volume_trend_days

\* the last N volumes, and the sums and lengths of their two halves
LastVolumes ==
    SubSeq(call.volumes, Len(call.volumes) - volume_trend_days + 1, Len(call.volumes))
FirstHalfLen  == volume_trend_days \div 2
SecondHalfLen == volume_trend_days - FirstHalfLen
FirstHalfSum  == SumOf(LastVolumes, 1, FirstHalfLen)
SecondHalfSum == SumOf(LastVolumes, FirstHalfLen + 1, volume_trend_days)
NonDecreasing == \A i \in 1..(volume_trend_days - 1) : LastVolumes[i] <= LastVolumes[i + 1]

\* C24 The volume-trend gate over the last N volumes passes exactly when they
\*     are monotonically non-decreasing or the average of their second half
\*     is greater than or equal to the average of their first half.
C24_VolumeTrendGate ==
    VolumeTrendAsked =>
        (call.out <=>
            \/ NonDecreasing
            \/ SecondHalfSum * FirstHalfLen >= FirstHalfSum * SecondHalfLen)

\* what the gate does: the second-half average has to be strictly greater
C24_VolumeTrendGateStrict ==
    VolumeTrendAsked =>
        (call.out <=>
            \/ NonDecreasing
            \/ SecondHalfSum * FirstHalfLen > FirstHalfSum * SecondHalfLen)

----------------------------------------------------------------------------
\* a close of the call lies exactly on the previous bar's band, on the side
\* on which the tightening test or the direction test is decided
TieAt(i) ==
    \/ CloseOf(i - 1) = UpperBand(i - 1)
    \/ CloseOf(i - 1) = LowerBand(i - 1)
    \/ CloseOf(i) = UpperBand(i - 1)
    \/ CloseOf(i) = LowerBand(i - 1)

\* C25 For every bar sequence and period the recurrence of
\*     SuperTrendStrategy._calculate_supertrend and the one of
\*     indicators.calculate_supertrend give the same final bands, the same
\*     direction and the same line on every bar, ties of a close with a band
\*     included.
C25_BothRecurrencesAgree ==
    SuperTrendAsked =>
        /\ Len(call.st_out) = Len(call.out)
        /\ \A i \in 1..Len(call.out) :
              /\ call.st_out[i].upperband = call.out[i].upperband
              /\ call.st_out[i].lowerband = call.out[i].lowerband
              /\ call.st_out[i].direction = call.out[i].direction
              /\ call.st_out[i].supertrend = call.out[i].supertrend

\* a sequence with a tie on a defined band after which the direction fell
C25_Witness ==
    /\ SuperTrendAsked
    /\ \E i \in 2..Len(call.out) :
          /\ UpperBand(i - 1) # NaN
          /\ TieAt(i)
          /\ \E j \in i..Len(call.out) : Direction(j) = -1

----------------------------------------------------------------------------
\* the buy orders and the recorded positions of the symbol being processed
BuyEvents == Calls(log, "place_buy_order") \cup Calls(log, "add_position")

\* the symbol whose processing the log belongs to: its first event is the
\* get_position of execute_cycle
LoggedSymbol == log[1].sym

\* C26 Every buy order the engine dispatches and every position it records
\*     while processing symbol X carries symbol X, so that a later
\*     portfolio.get_position(X) finds the position opened for X.
C26_OrdersCarryProcessedSymbol ==
    /\ \A i \in BuyEvents : log[i].sym = LoggedSymbol
    /\ Calls(log, "add_position") # {} => get_position(LoggedSymbol) # None

\* what the engine keeps: the order and the position carry the symbol of the
\* signal, which the strategy read from the latest bar
C26_OrdersCarrySignalSymbol ==
    [][\A i \in 1..Len(Appended) :
          Appended[i].op \in {"place_buy_order", "add_position"} =>
              Appended[i].sym = Head(all_signals).symbol]_vars

----------------------------------------------------------------------------
\* C27 For every buy order the engine dispatches, quantity x price does not
\*     exceed the available capital read when the order was sized, whichever
\*     strategy produced the signal; so with a portfolio that deducts every
\*     recorded position, the orders accepted one after another never commit
\*     more than the capital that was available.
C27_OrdersWithinAvailableCapital ==
    /\ \A i \in Calls(log, "place_buy_order") : log[i].qty * log[i].price <= log[i].cap
    /\ capital >= 0

\* what holds: an order for a signal of SuperTrendStrategy, which the engine
\* finds by the first word of the reason and lets size the order, stays
\* within the strategy's share of the capital read for it
C27_SizedOrdersWithinShare ==
    \A i \in Calls(log, "place_buy_order") :
        log[i].who = "SuperTrend" =>
            100 * log[i].qty * log[i].price <= max_position_size * log[i].cap

----------------------------------------------------------------------------
\* C28 Within one cycle the engine opens at most one position per symbol:
\*     once a buy order for the symbol succeeded and its position was
\*     recorded, no further buy order is dispatched and no second position is
\*     recorded for it, even when several strategies emit a BUY signal.
C28_OnePositionPerSymbol ==
    /\ Cardinality(Calls(log, "add_position")) <= 1
    /\ \A i \in Calls(log, "add_position"), j \in Calls(log, "place_buy_order") : j < i

----------------------------------------------------------------------------
\* the entry conditions of MacdRsiStrategy held on the bar of the call
EnteredOnBar == call.fn = "entry_then_exit" /\ call.entry

\* C29 No bar satisfies both the entry conditions of MacdRsiStrategy and its
\*     should_exit for a position entered at the close of that bar with the
\*     stop-loss and take-profit of the signal.
C29_EntryBarDoesNotExit ==
    EnteredOnBar => ~call.out.exit

\* what holds: on an entry bar should_exit answers exit as soon as the RSI is
\* below 70 and the close below the upper Bollinger band
C29_EntryBarExitsOnMomentum ==
    (EnteredOnBar /\ Rsi(call.bar) < 70 /\ call.bar.close < BbUpper(call.bar)) =>
        (call.out.exit /\ ~call.out.raised)

----------------------------------------------------------------------------
\* the rows a call of calculate_supertrend returned, and its closes
RowsOf ==
    IF call.fn = "calculate_supertrend" THEN call.out
    ELSE IF call.fn = "calculate_supertrend_frame" THEN call.out.rows
    ELSE <<>>

\* C30 In the output of calculate_supertrend, across two consecutive bars
\*     that both have direction +1 and a defined line the supertrend line
\*     does not decrease, and across two consecutive bars that both have
\*     direction -1 the line does not increase.
C30_LineMonotoneWithinTrend ==
    \A i \in 2..Len(RowsOf) :
        LET prev == RowsOf[i - 1]
            cur  == RowsOf[i] IN
        (prev.supertrend # NaN /\ cur.supertrend # NaN) =>
            /\ (prev.direction = 1 /\ cur.direction = 1) => prev.supertrend <= cur.supertrend
            /\ (prev.direction = -1 /\ cur.direction = -1) => cur.supertrend <= prev.supertrend

\* what the loop keeps: a band is carried over only when the previous close
\* lies on the inner side of it; then the lower band does not fall and the
\* upper band does not rise
C30_BandsRatchetBehindClose ==
    \A i \in 2..Len(RowsOf) :
        LET prev == RowsOf[i - 1]
            cur  == RowsOf[i]
            prc  == scaled_close(call.bars, call.period, i - 1) IN
        /\ Le(prev.lowerband, prc) => Le(prev.lowerband, cur.lowerband)
        /\ Le(prc, prev.upperband) => Le(cur.upperband, prev.upperband)

====
